---------------------------- MODULE Spec2Model ----------------------------
(***************************************************************************)
(* Filecoin-Antithesis workload driver: the weighted action scheduler of   *)
(* the stress engine and of the protocol fuzzer, and the nonce-ordered     *)
(* transaction submission pipeline of the stress engine.                   *)
(*                                                                         *)
(* Two specifications share the module's variables:                        *)
(*   SpecDeck  one run of one executable: buildDeck, then the main loop;   *)
(*   Spec      the stress engine in its main loop: the native-message      *)
(*             vectors (pushMsg, DoGasWar, DoAdversarial,                  *)
(*             DoConflictingContractCalls, the deploy queue that feeds     *)
(*             the contract registry) and sendEthTx with its nonce cache.  *)
(***************************************************************************)
EXTENDS Integers, Sequences, FiniteSets, TLC

(***************************************************************************)
(* Bounds of the model.                                                    *)
(***************************************************************************)
\* largest weight an environment variable is given
MaxWeight == 2
\* number of weight variables set individually, the others share one value
MaxEnvSet == 1
\* largest value drawn from the random source by the main loop
MaxRand == 7
\* attacks per category whose list is not part of the sources
MaxExtraAttacks == 1
\* the vectors stop submitting once this many nonces have been consumed
MaxNonce == 2
\* deployments submitted in one run
MaxContracts == 1
\* largest nonce the EVM cache hands out
MaxEthNonce == 2
\* receipts that arrive for the deployments a run finds queued at its start,
\* and the number of queue entries that can have one at a single invocation
MaxReceipts == 1
\* largest nonce the first node reports for an address at startup
MaxInitNonce == 1
\* discovery attempts that fit in the fuzzer's startup window
MaxAttempts == 2
\* partition cycles one invocation of DoReorgChaos is asked to run
MaxCycles == 2
\* largest identity-pool size the environment configures
MaxPool == 2
\* largest message budget a gossip attack asks for
MaxBudget == 2
\* hosts createHost makes in one run
MaxHosts == 4
\* largest deposit of DoFocDeposit, in USDFC
MaxAmount == 2
\* deposits of a run, counted in deposits of the largest amount
MaxDeposits == 2
\* null rounds below a tipset
MaxSkip == 1
\* goroutines that call sendEthTx for one sender at the same time
MaxCalls == 3
\* streams the victim opens to the malicious exchange handler in one run
MaxInvocations == 2
\* server attacks the main loop runs one after the other
MaxAttacks == 2
\* distinct values randomCID can return
MaxDraw == 2

VARIABLES
    proc,       \* which executable this run is: "engine" or "fuzzer"
    env,        \* the environment: variable name -> Unset, Bad or an integer
    extra,      \* length of the attack lists of the gossip/bitswap/chaos categories
    pc,         \* position of main(): "start", "fatal", "exit", "pick", "run", "sleep"
    deck,       \* the weighted deck
    idx,        \* index picked in this iteration (0-based, -1 before the first pick)
    stage,      \* last thing main() completed: "none", "built", "action", "sleep"
    nodeKeys,   \* names of the connected nodes, in connection order
    nonces,     \* per-address nonce counter of the stress engine
    deployedContracts,  \* the deployed-contract registry
    pendingDeploys,     \* the pending-deploy queue
    active,     \* the vector whose goroutines are in flight, or "idle"
    race,       \* the in-flight contention: sender, nonce, nodes, pushes still running
    op,         \* the vector the latest step belonged to
    evs,        \* what the latest step did: its signings and mempool pushes, in order
    lastPushed, \* per address, the latest message handed to MpoolPush: its nonce (-1: none)
                \* and whether it left the nonce unconsumed (rejected, or the garbage-signed one)
    ethNonces,  \* the EVM nonce cache, keyed by sender
    ethNoncesMu,\* TRUE while ethNoncesMu is held
    eth,        \* the sendEthTx call in progress: position, sender, nonce, where the nonce came from
    focConfig,  \* TRUE when the FOC environment was loaded (focConfig != nil)
    nonces0,    \* the counters as initNonces left them
    keyfile,    \* what reading the keystore file gave: "unread", "unreadable", "unparsable", "parsed"
    addrs,      \* the wallet addresses loaded from the keystore, in file order
    targets,    \* the libp2p targets the fuzzer discovered
    attempts,   \* discovery attempts the fuzzer has made
    receipts,   \* what the latest step's StateSearchMsg lookups found, one per drained entry
    asserts,    \* the assert.Always calls of the latest step, in order, and the
                \* assert.Sometimes calls of the chain checks
    rpc,        \* what each node answered to the chain queries of the latest step
    pool,       \* the fuzzer's IdentityPool
    chain,      \* what the chain holds of the FOC contracts: the client's FilecoinPay
                \* funds, and the deposits the mempool accepted that are not executed yet
    compute,    \* the latest DoHeavyCompute: its node, the head it read, the tipset
                \* the loop is at, epochsChecked, and the recomputations it made
    reorg,      \* the partition cycles of the DoReorgChaos in flight: its locals, the
                \* victim's connections, and the wait of waitForEpochsOnOther
    sends,      \* sendEthTx calls of one sender running in goroutines of their own:
                \* where each call is and the nonce it took, and the nonces the
                \* node's mempool holds for the sender
    server,     \* the runExchangeServerAttack in progress, statement by statement:
                \* its host, the handlers registered, the served channels, the
                \* hosts closed and the handler invocations the victim started
    resp      \* the ChainExchange response a multi-block builder made: its id and its tipset

deckVars == <<proc, env, extra, pc, deck, idx, stage>>

bootVars == <<nonces0, keyfile, addrs, targets, attempts>>

obsVars == <<receipts, asserts, rpc, chain, compute, reorg, sends, server, resp>>

engineVars == <<nodeKeys, nonces, deployedContracts, pendingDeploys, active, race,
                op, evs, lastPushed, ethNonces, ethNoncesMu, eth, focConfig, pool, bootVars, obsVars>>

ethVars == <<ethNonces, ethNoncesMu, eth>>

vars == <<proc, env, extra, pc, deck, idx, stage, nodeKeys, nonces, deployedContracts,
          pendingDeploys, active, race, op, evs, lastPushed, ethNonces, ethNoncesMu,
          eth, focConfig, nonces0, keyfile, addrs, targets, attempts, receipts,
          asserts, rpc, pool, chain, compute, reorg, sends, server, resp>>

(***************************************************************************)
(* Configuration helpers.                                                  *)
(***************************************************************************)
\* An environment value: set = os.Getenv returned a non-empty string,
\* ok = strconv.Atoi accepts it, n = the integer Atoi returns.
Unset == [set |-> FALSE, ok |-> FALSE, n |-> 0]

Bad == [set |-> TRUE, ok |-> FALSE, n |-> 0]

Num(k) == [set |-> TRUE, ok |-> TRUE, n |-> k]

EnvVals == {Bad} \cup {Num(k) : k \in -1 .. MaxWeight}

envIntNoFallback(v, fallback) ==
    IF v.set /\ v.ok THEN v.n ELSE 0

envInt(v, fallback) ==
    IF ~v.set THEN fallback
    ELSE IF ~v.ok THEN fallback
    ELSE v.n

rngIntn(r, n) == IF n <= 0 THEN 0 ELSE r % n

\* i copies of entry e, none when w <= 0:  for i := 0; i < w; i++ { append }
RECURSIVE Copies(_, _)
Copies(e, w) == IF w <= 0 THEN <<>> ELSE <<e>> \o Copies(e, w - 1)

RECURSIVE Repeat(_, _)
Repeat(s, w) == IF w <= 0 THEN <<>> ELSE s \o Repeat(s, w - 1)

\* number of entries of deck d that carry the name and the callable of e
Count(d, e) == Cardinality({i \in 1 .. Len(d) : d[i].fn = e.fn /\ d[i].name = e.name})

(***************************************************************************)
(* Stress engine: the vector table of buildDeck.                           *)
(***************************************************************************)
actions == <<
    [name |-> "DoTransferMarket",           envVar |-> "STRESS_WEIGHT_TRANSFER",       defWeight |-> 0],
    [name |-> "DoGasWar",                   envVar |-> "STRESS_WEIGHT_GAS_WAR",        defWeight |-> 0],
    [name |-> "DoHeavyCompute",             envVar |-> "STRESS_WEIGHT_HEAVY_COMPUTE",  defWeight |-> 0],
    [name |-> "DoAdversarial",              envVar |-> "STRESS_WEIGHT_ADVERSARIAL",    defWeight |-> 0],
    [name |-> "DoChainMonitor",             envVar |-> "STRESS_WEIGHT_CHAIN_MONITOR",  defWeight |-> 0],
    [name |-> "DoDeployContracts",          envVar |-> "STRESS_WEIGHT_DEPLOY",         defWeight |-> 2],
    [name |-> "DoContractCall",             envVar |-> "STRESS_WEIGHT_CONTRACT_CALL",  defWeight |-> 3],
    [name |-> "DoSelfDestructCycle",        envVar |-> "STRESS_WEIGHT_SELFDESTRUCT",   defWeight |-> 1],
    [name |-> "DoConflictingContractCalls", envVar |-> "STRESS_WEIGHT_CONTRACT_RACE",  defWeight |-> 2],
    [name |-> "DoGasGuzzler",               envVar |-> "STRESS_WEIGHT_GAS_GUZZLER",    defWeight |-> 0],
    [name |-> "DoLogBlaster",               envVar |-> "STRESS_WEIGHT_LOG_BLASTER",    defWeight |-> 0],
    [name |-> "DoMemoryBomb",               envVar |-> "STRESS_WEIGHT_MEMORY_BOMB",    defWeight |-> 0],
    [name |-> "DoStorageSpam",              envVar |-> "STRESS_WEIGHT_STORAGE_SPAM",   defWeight |-> 0],
    [name |-> "DoReorgChaos",               envVar |-> "STRESS_WEIGHT_REORG",          defWeight |-> 0] >>

\* namedAction{name: a.name, fn: a.fn}
namedAction(a) == [name |-> a.name, fn |-> <<"engine", a.name>>]

EngineVars == {actions[i].envVar : i \in 1 .. Len(actions)}

(***************************************************************************)
(* Protocol fuzzer: the attack lists and the category table of buildDeck.  *)
(***************************************************************************)
ExchangeClientNames == <<
    "exch-empty-head", "exch-huge-head", "exch-zero-length", "exch-max-length",
    "exch-zero-options", "exch-bad-options", "exch-truncated-cbor",
    "exch-oversized-cbor", "exch-wrong-cbor-type", "exch-slow-read",
    "exch-stream-burst", "exch-half-read", "exch-dup-cids", "exch-max-req-len",
    "exch-over-max-len", "exch-hang-no-close" >>

ExchangeServerNames == <<
    "R01-nil-ticket", "R02-nil-election-proof", "R03-nil-bls-aggregate",
    "R04-nil-block-sig", "R05-nil-beacon-entries", "R06-empty-beacon-entries",
    "R07-nil-block-in-array", "R08-nil-bls-message", "R09-nil-secpk-message",
    "R10-nil-secpk-signature", "R11-oob-bls-index", "R12-oob-secpk-index",
    "R13-nil-compacted-msgs", "R14-empty-chain-ok", "R15-duplicate-blocks",
    "R16-unknown-status", "R17-mismatched-includes", "R18-more-tipsets-than-req",
    "R19-nil-parents", "R20-empty-parents", "R21-all-nil-fields",
    "R22-nil-ticket-multiblock", "R23-both-nil-tickets",
    "R24-nil-electionproof-multiblock" >>

HelloNames == <<
    "hello-empty-tipset", "hello-huge-tipset", "hello-inflated-weight",
    "hello-future-height", "hello-immediate-disconnect", "hello-partial-cbor",
    "hello-wrong-genesis", "hello-spam-50" >>

\* result[i] = namedAttack{name: a.name, fn: func() {...}}: one closure per row
namedAttacks(list, names) ==
    [i \in 1 .. Len(names) |-> [name |-> names[i], fn |-> <<list, names[i]>>]]

getAllExchangeClientAttacks == namedAttacks("exchange-client", ExchangeClientNames)

getAllExchangeServerAttacks == namedAttacks("exchange-server", ExchangeServerNames)

getAllHelloAttacks == namedAttacks("hello", HelloNames)

\* the attack list of a category whose source is not available: n attacks
ExtraNames == <<"a", "b", "c", "d", "e", "f">>

getAllExtraAttacks(list, n) == namedAttacks(list, SubSeq(ExtraNames, 1, n))

categories(x) == <<
    [envVar |-> "FUZZER_WEIGHT_EXCHANGE_CLIENT", defWeight |-> 3, attacks |-> getAllExchangeClientAttacks],
    [envVar |-> "FUZZER_WEIGHT_EXCHANGE_SERVER", defWeight |-> 3, attacks |-> getAllExchangeServerAttacks],
    [envVar |-> "FUZZER_WEIGHT_HELLO",           defWeight |-> 3, attacks |-> getAllHelloAttacks],
    [envVar |-> "FUZZER_WEIGHT_GOSSIP",          defWeight |-> 0, attacks |-> getAllExtraAttacks("gossip", x)],
    [envVar |-> "FUZZER_WEIGHT_BITSWAP",         defWeight |-> 0, attacks |-> getAllExtraAttacks("bitswap", x)],
    [envVar |-> "FUZZER_WEIGHT_CHAOS",           defWeight |-> 0, attacks |-> getAllExtraAttacks("chaos", x)] >>

FuzzerVars == {categories(0)[i].envVar : i \in 1 .. Len(categories(0))}

WeightVars == EngineVars \cup FuzzerVars

EnvNames == WeightVars \cup {"FUZZER_ENABLED"}

(***************************************************************************)
(* Stress engine state: wallets, nodes, nonce counters, contract registry. *)
(***************************************************************************)
\* the addresses of the keystore
Wallets == {"w1", "w2", "w3"}

\* the entries of the keystore file, in file order
KeystoreEntries == <<"w1", "w2", "w3">>

\* the node names of STRESS_NODES, in order
NodeNames == <<"lotus0", "forest0">>

\* the contract types of contractBytecodes used by the vectors modelled here
ContractTypes == {"simplecoin", "recursive"}

\* the senders derived from the private keys handed to sendEthTx
EthKeys == {"k1", "k2"}

\* ethNonces = map[address.Address]uint64{}
NoEntries == [k \in {} |-> 0]

NoEth == [pos |-> "idle", key |-> "", nonce |-> 0, source |-> "none", locked |-> FALSE]

NoPush == [nonce |-> -1, free |-> FALSE]

\* a goroutine that has not called sendEthTx; during: the calls that had
\* taken a nonce and not returned when this one took its own; raw: how its
\* EthSendRawTransaction ended ("none" while it has not been called)
NoCall == [pos |-> "idle", nonce |-> -1, signed |-> FALSE, during |-> {},
           raw |-> "none"]

\* no call in any goroutine, nothing of the sender in the node's mempool
NoSends == [call |-> [g \in 1 .. MaxCalls |-> NoCall], mempool |-> {}]

\* no response built
NoResp == [id |-> "none", ts |-> <<>>]

\* a handler invocation that has not started
NoInvocation == [pos |-> "none", h |-> 0, eof |-> FALSE, sent |-> FALSE]

\* no server attack yet: pc is the statement of runExchangeServerAttack about
\* to run (0: not in the function), h its host, handlers the protocols with a
\* stream handler in the order they were set, atConnect and atHello what
\* handlers held when Connect and the trigger Hello were made, full the hosts
\* whose served channel holds its token, closed the hosts closed, fired the
\* timer of the select, got the tokens the attack received, taken the hosts
\* whose attack received its token, how the way the
\* latest attack returned, inv the handler invocations
NoServer ==
    [pc |-> 0, h |-> 0, handlers |-> <<>>, atConnect |-> <<>>, atHello |-> <<>>,
     full |-> {}, taken |-> {}, closed |-> {}, fired |-> FALSE, got |-> 0,
     how |-> "none",
     inv |-> [k \in 1 .. MaxInvocations |-> NoInvocation]]

\* a node that was asked nothing: head and fin are heights, key a tipset key, a
\* state root or an actor's code, peers a peer count; -1 and "error" are RPC
\* errors, -2 and "" mean the query was not made; msgs and rcpts are the
\* lengths of a block's parent messages and parent receipts; at is the
\* height the node was asked for a tipset at, 0 when it was not asked
Unasked ==
    [head |-> -2, fin |-> -2, key |-> "", peers |-> -2, msgs |-> -2, rcpts |-> -2, at |-> 0]

NoAnswers == [n \in {NodeNames[i] : i \in 1 .. Len(NodeNames)} |-> Unasked]

\* newIdentityPool(maxPool): no hosts, no budgets, no stream host (0 is nil);
\* closed: the hosts Close() was called on; ret: what the latest call
\* returned; evicted: the host the latest call evicted; streamCalls: the
\* calls of GetForStream so far, counted up to two
newIdentityPool(maxPool) ==
    [maxPool |-> maxPool, hosts |-> <<>>, budgets |-> <<>>, streamHost |-> 0,
     log |-> <<>>, closed |-> {}, ret |-> [h |-> 0, err |-> FALSE], evicted |-> 0,
     streamCalls |-> 0, panic |-> FALSE]

defaultPoolSize == 20

\* the executable has no pool, or has not built it yet
NoPool == newIdentityPool(0)

\* no funds in the client's FilecoinPay account, no deposit in flight
NoChain == [funds |-> 0, pending |-> 0]

\* DoHeavyCompute has not run: no node, no head, no tipset; tipset heights
\* are positive
NoCompute ==
    [node |-> "", head |-> 0, checkTs |-> [height |-> 0, parentState |-> ""],
     epochsChecked |-> 0, computed |-> <<>>, failed |-> FALSE]

\* no waitForEpochsOnOther in flight: no node watched, no deadline armed
NoWait == [watch |-> "", n |-> 0, target |-> 0, fired |-> FALSE, head |-> -2, slept |-> 0]

\* DoReorgChaos is not in its cycles
NoReorg ==
    [victim |-> "", numCycles |-> 0, cycle |-> 0, successfulCycles |-> 0,
     knownPeers |-> {}, savedPeers |-> {}, connectTried |-> {}, phase |-> "none",
     wait |-> NoWait]

NoRace == [from |-> "", nonce |-> 0, nodeA |-> "", nodeB |-> "", pending |-> {}, errs |-> {}]

\* a local signing: the Nonce of the message signed; locked: the nonce was
\* read from its counter while the counter's mutex was held
SignEv(kind, from, nonce, locked, ok) ==
    [type |-> "sign", kind |-> kind, from |-> from, nonce |-> nonce,
     locked |-> locked, node |-> "", ok |-> ok]

\* a message handed to a node's mempool, and whether the node accepted it
PushEv(kind, from, nonce, node, ok) ==
    [type |-> "push", kind |-> kind, from |-> from, nonce |-> nonce,
     locked |-> FALSE, node |-> node, ok |-> ok]

RECURSIVE ApplyPushes(_, _)
ApplyPushes(lp, es) ==
    IF es = <<>> THEN lp
    ELSE LET e == Head(es)
         IN  ApplyPushes(IF e.type = "push" /\ e.kind # "evm"
                         THEN [lp EXCEPT ![e.from] =
                                  [nonce |-> e.nonce, free |-> ~e.ok \/ e.kind = "garbage"]]
                         ELSE lp,
                         Tail(es))

\* the state of the engine's variables while SpecDeck runs
EngineIdle ==
    /\ nodeKeys = <<>>
    /\ nonces = [w \in Wallets |-> 0]
    /\ deployedContracts = <<>>
    /\ pendingDeploys = <<>>
    /\ active = "idle"
    /\ race = NoRace
    /\ op = "none"
    /\ evs = <<>>
    /\ lastPushed = [w \in Wallets |-> NoPush]
    /\ ethNonces = NoEntries
    /\ ethNoncesMu = FALSE
    /\ eth = NoEth
    /\ focConfig = FALSE
    /\ nonces0 = [w \in Wallets |-> 0]
    /\ keyfile = "unread"
    /\ addrs = <<>>
    /\ targets = <<>>
    /\ attempts = 0
    /\ receipts = <<>>
    /\ asserts = <<>>
    /\ rpc = NoAnswers
    /\ chain = NoChain
    /\ compute = NoCompute
    /\ reorg = NoReorg
    /\ sends = NoSends
    /\ server = NoServer
    /\ resp = NoResp

Nodes == {nodeKeys[i] : i \in 1 .. Len(nodeKeys)}

\* pickWallet draws from the addresses loaded from the keystore
Loaded == {addrs[i] : i \in 1 .. Len(addrs)}

\* the main loop runs a vector only when the deck holds it
InDeck(name) == \E i \in 1 .. Len(deck) : deck[i].name = name

\* the loop is between two actions: nothing of a vector is in flight
Idle(name) == active = "idle" /\ InDeck(name)

RECURSIVE Consumed(_, _)
Consumed(ns, ws) ==
    IF ws = {} THEN 0
    ELSE LET w == CHOOSE x \in ws : TRUE IN ns[w] + Consumed(ns, ws \ {w})

\* the run has nonces left to hand out
Budget == Consumed(nonces, Wallets) < Consumed(nonces0, Wallets) + MaxNonce

\* one step of a vector: what it leaves in the engine's variables
StepObs(vec, ns, es, act, rc, dc, pd, rs, as, an) ==
    /\ op' = vec
    /\ nonces' = ns
    /\ evs' = es
    /\ lastPushed' = ApplyPushes(lastPushed, es)
    /\ active' = act
    /\ race' = rc
    /\ deployedContracts' = dc
    /\ pendingDeploys' = pd
    /\ receipts' = rs
    /\ asserts' = as
    /\ rpc' = an
    /\ chain' = chain
    /\ compute' = compute
    /\ reorg' = reorg
    /\ sends' = sends
    /\ server' = server
    /\ resp' = resp
    /\ UNCHANGED <<deckVars, nodeKeys, ethVars, focConfig, pool, bootVars>>

\* a step that looks up no receipt and makes no safety assertion
Step(vec, ns, es, act, rc, dc, pd) ==
    StepObs(vec, ns, es, act, rc, dc, pd, <<>>, <<>>, NoAnswers)

\* a vector that returns without touching anything
Return(vec, es) == Step(vec, nonces, es, "idle", NoRace, deployedContracts, pendingDeploys)

(***************************************************************************)
(* helpers.go: signMsg, pushMsg.                                           *)
(***************************************************************************)
pushMsgAlwaysIncrement(ns, from, node, signOk, pushOk) ==
    [nonces |-> IF signOk THEN [ns EXCEPT ![from] = @ + 1] ELSE ns,
     evs    |-> <<SignEv("native", from, ns[from], FALSE, signOk)>>
                \o (IF signOk THEN <<PushEv("native", from, ns[from], node, pushOk)>> ELSE <<>>),
     ok     |-> signOk /\ pushOk]

pushMsg(ns, from, node, signOk, pushOk) ==
    LET nonce == ns[from]                       \* msg.Nonce = nonces[msg.From]
        sign  == SignEv("native", from, nonce, FALSE, signOk)
    IN  IF ~signOk
        THEN [nonces |-> ns, evs |-> <<sign>>, ok |-> FALSE]
        ELSE IF ~pushOk
        THEN [nonces |-> ns, evs |-> <<sign, PushEv("native", from, nonce, node, FALSE)>>,
              ok |-> FALSE]
        ELSE [nonces |-> [ns EXCEPT ![from] = @ + 1],
              evs |-> <<sign, PushEv("native", from, nonce, node, TRUE)>>,
              ok |-> TRUE]

(***************************************************************************)
(* Mempool vectors.                                                        *)
(***************************************************************************)
\* the outcomes of a signing followed by a push: the push happens only
\* when the signing succeeded
SignPush == {<<FALSE, FALSE>>, <<TRUE, FALSE>>, <<TRUE, TRUE>>}

DoTransferMarket ==
    /\ Idle("DoTransferMarket")
    /\ \E from \in Wallets :
          \/ /\ \E to \in Wallets : from = to
             /\ Return("DoTransferMarket", <<>>)
          \/ /\ \E to \in Wallets : from # to
             /\ Budget
             /\ \E node \in Nodes, o \in SignPush :
                  LET r == pushMsg(nonces, from, node, o[1], o[2])
                  IN  Step("DoTransferMarket", r.nonces, r.evs, "idle", NoRace,
                           deployedContracts, pendingDeploys)

\* the outcome of DoGasWar once the wallets and the node are picked
gasWarNoConsume(ns, from, node, signA, pushA, signB, pushB) ==
    LET cur == ns[from]
        sA  == SignEv("native", from, cur, FALSE, signA)
        pA  == PushEv("native", from, cur, node, pushA)
        sB  == SignEv("native", from, cur, FALSE, signB)
        pB  == PushEv("native", from, cur, node, pushB)
    IN  IF ~signA THEN [nonces |-> ns, evs |-> <<sA>>]
        ELSE IF ~pushA THEN [nonces |-> ns, evs |-> <<sA, pA>>]
        ELSE IF ~signB THEN [nonces |-> ns, evs |-> <<sA, pA, sB>>]
        ELSE [nonces |-> ns, evs |-> <<sA, pA, sB, pB>>]

\* DoGasWar with Tx_B built from the counter read again after Tx_A
gasWarNextNonceB(ns, from, node, signA, pushA, signB, pushB) ==
    LET cur == ns[from]
        sA  == SignEv("native", from, cur, FALSE, signA)
        pA  == PushEv("native", from, cur, node, pushA)
        sB  == SignEv("native", from, cur + 1, FALSE, signB)
        pB  == PushEv("native", from, cur + 1, node, pushB)
        inc == [ns EXCEPT ![from] = @ + 1]
    IN  IF ~signA THEN [nonces |-> ns, evs |-> <<sA>>]
        ELSE IF ~pushA THEN [nonces |-> ns, evs |-> <<sA, pA>>]
        ELSE IF ~signB THEN [nonces |-> inc, evs |-> <<sA, pA, sB>>]
        ELSE [nonces |-> inc, evs |-> <<sA, pA, sB, pB>>]

gasWarConsumesOnReject(ns, from, node, signA, pushA, signB, pushB) ==
    LET cur == ns[from]
        sA  == SignEv("native", from, cur, FALSE, signA)
        pA  == PushEv("native", from, cur, node, pushA)
        sB  == SignEv("native", from, cur, FALSE, signB)
        pB  == PushEv("native", from, cur, node, pushB)
        inc == [ns EXCEPT ![from] = @ + 1]
    IN  IF ~signA THEN [nonces |-> ns, evs |-> <<sA>>]
        ELSE IF ~pushA THEN [nonces |-> inc, evs |-> <<sA, pA>>]
        ELSE IF ~signB THEN [nonces |-> inc, evs |-> <<sA, pA, sB>>]
        ELSE [nonces |-> inc, evs |-> <<sA, pA, sB, pB>>]

gasWar(ns, from, node, signA, pushA, signB, pushB) ==
    LET cur == ns[from]                         \* currentNonce := nonces[fromAddr]
        sA  == SignEv("native", from, cur, FALSE, signA)
        pA  == PushEv("native", from, cur, node, pushA)
        sB  == SignEv("native", from, cur, FALSE, signB)
        pB  == PushEv("native", from, cur, node, pushB)
        inc == [ns EXCEPT ![from] = @ + 1]
    IN  IF ~signA THEN [nonces |-> ns, evs |-> <<sA>>]
        ELSE IF ~pushA THEN [nonces |-> ns, evs |-> <<sA, pA>>]
        ELSE IF ~signB THEN [nonces |-> inc, evs |-> <<sA, pA, sB>>]
        ELSE [nonces |-> inc, evs |-> <<sA, pA, sB, pB>>]

\* the outcomes of DoGasWar's two signings and two pushes
GasWarOutcomes ==
    {<<FALSE, FALSE, FALSE, FALSE>>, <<TRUE, FALSE, FALSE, FALSE>>,
     <<TRUE, TRUE, FALSE, FALSE>>, <<TRUE, TRUE, TRUE, FALSE>>, <<TRUE, TRUE, TRUE, TRUE>>}

DoGasWar ==
    /\ Idle("DoGasWar")
    /\ \E from \in Wallets :
          \/ /\ \E toA \in Wallets, toB \in Wallets : from = toA \/ from = toB
             /\ Return("DoGasWar", <<>>)
          \/ /\ \E toA \in Wallets, toB \in Wallets : from # toA /\ from # toB
             /\ Budget
             /\ \E node \in Nodes, o \in GasWarOutcomes :
                  LET r == gasWar(nonces, from, node, o[1], o[2], o[3], o[4])
                  IN  Step("DoGasWar", r.nonces, r.evs, "idle", NoRace,
                           deployedContracts, pendingDeploys)

\* doInvalidSignature: the message carries the sender's real nonce and a
\* garbage signature; nothing is signed and no counter is written
invalidSignatureConsumes(ns, from, node, accepted) ==
    [nonces |-> [ns EXCEPT ![from] = @ + 1],
     evs |-> <<PushEv("garbage", from, ns[from], node, accepted)>>]

invalidSignature(ns, from, node, accepted) ==
    [nonces |-> ns,
     evs |-> <<PushEv("garbage", from, ns[from], node, accepted)>>]

doInvalidSignature ==
    /\ Idle("DoAdversarial")
    /\ \E from \in Wallets :
          \/ /\ \E to \in Wallets : from = to
             /\ Return("doInvalidSignature", <<>>)
          \/ /\ \E to \in Wallets : from # to
             /\ \E node \in Nodes, accepted \in BOOLEAN :
                  LET r == invalidSignature(nonces, from, node, accepted)
                  IN  Step("doInvalidSignature", r.nonces, r.evs, "idle", NoRace,
                           deployedContracts, pendingDeploys)

(***************************************************************************)
(* Same-nonce contention: two messages signed with the current nonce, two  *)
(* goroutines pushing them to two nodes, wg.Wait(), then nonces[from]++.   *)
(***************************************************************************)
RaceVectors == {"doDoubleSpend", "doNonceRace", "DoConflictingContractCalls"}

\* both messages are signed before either result is looked at
raceSign(ns, from, signA, signB) ==
    <<SignEv("native", from, ns[from], FALSE, signA),
      SignEv("native", from, ns[from], FALSE, signB)>>

\* the goroutines are started only when both signings succeeded
raceStarts(signA, signB) == signA /\ signB

RaceStart(vec, from, nodeA, nodeB, signA, signB) ==
    IF raceStarts(signA, signB)
    THEN Step(vec, nonces, raceSign(nonces, from, signA, signB), vec,
              [from |-> from, nonce |-> nonces[from], nodeA |-> nodeA, nodeB |-> nodeB,
               pending |-> {"A", "B"}, errs |-> {}],
              deployedContracts, pendingDeploys)
    ELSE Return(vec, raceSign(nonces, from, signA, signB))

\* the two draws without the loop that redraws nodeB
AnyTwoNodes == Nodes \X Nodes

\* for nodeA == nodeB && len(nodeKeys) > 1 { nodeB = ... }
TwoNodes == {p \in Nodes \X Nodes : p[1] # p[2]}

doDoubleSpend ==
    /\ Idle("DoAdversarial")
    /\ IF Len(nodeKeys) < 2
       THEN Return("doDoubleSpend", <<>>)
       ELSE \E from \in Wallets :
               \/ /\ \E toA \in Wallets, toB \in Wallets :
                        from = toA \/ from = toB \/ toA = toB
                  /\ Return("doDoubleSpend", <<>>)
               \/ /\ \E toA \in Wallets, toB \in Wallets :
                        from # toA /\ from # toB /\ toA # toB
                  /\ Budget
                  /\ \E n \in TwoNodes, signA \in BOOLEAN, signB \in BOOLEAN :
                       RaceStart("doDoubleSpend", from, n[1], n[2], signA, signB)

doNonceRace ==
    /\ Idle("DoAdversarial")
    /\ IF Len(nodeKeys) < 2
       THEN Return("doNonceRace", <<>>)
       ELSE \E from \in Wallets :
               \/ /\ \E to \in Wallets : from = to
                  /\ Return("doNonceRace", <<>>)
               \/ /\ \E to \in Wallets : from # to
                  /\ Budget
                  /\ \E n \in TwoNodes, signA \in BOOLEAN, signB \in BOOLEAN :
                       RaceStart("doNonceRace", from, n[1], n[2], signA, signB)

\* getContractsByType(ctype)
getContractsByType(ctype) ==
    SelectSeq(deployedContracts, LAMBDA c : c.ctype = ctype)

DoConflictingContractCalls ==
    /\ Idle("DoConflictingContractCalls")
    /\ IF Len(nodeKeys) < 2 \/ Len(getContractsByType("simplecoin")) = 0
       THEN Return("DoConflictingContractCalls", <<>>)
       ELSE \E i \in 1 .. Len(getContractsByType("simplecoin")) :
               LET c == getContractsByType("simplecoin")[i]
               IN  \/ /\ \E toA \in Wallets, toB \in Wallets, calldataOk \in BOOLEAN :
                            toA = toB \/ ~calldataOk
                      /\ Return("DoConflictingContractCalls", <<>>)
                   \/ /\ \E toA \in Wallets, toB \in Wallets : toA # toB
                      /\ Budget
                      /\ \E n \in TwoNodes, signA \in BOOLEAN, signB \in BOOLEAN :
                           RaceStart("DoConflictingContractCalls", c.deployer,
                                     n[1], n[2], signA, signB)

\* one of the two goroutines: its MpoolPush returns
racePush(rc, ns, g, ok) == ns

RacePush ==
    /\ active \in RaceVectors
    /\ \E g \in race.pending, ok \in BOOLEAN :
          Step(active, racePush(race, nonces, g, ok),
               <<PushEv("native", race.from, race.nonce,
                        IF g = "A" THEN race.nodeA ELSE race.nodeB, ok)>>,
               active,
               [race EXCEPT !.pending = @ \ {g},
                            !.errs = IF ok THEN @ ELSE @ \cup {g}],
               deployedContracts, pendingDeploys)

\* wg.Wait() has returned: nonces[from]++
raceJoinOnSuccess(rc, ns) ==
    IF rc.errs = {"A", "B"} THEN ns ELSE [ns EXCEPT ![rc.from] = @ + 1]

\* one increment for each of the two pushes
raceJoinPerPush(rc, ns) == [ns EXCEPT ![rc.from] = @ + 2]

raceJoin(rc, ns) == [ns EXCEPT ![rc.from] = @ + 1]

RaceJoin ==
    /\ active \in RaceVectors
    /\ race.pending = {}
    /\ Step(active, raceJoin(race, nonces), <<>>, "idle", race,
            deployedContracts, pendingDeploys)

(***************************************************************************)
(* Contract deployment: DoDeployContracts and its pending queue.           *)
(***************************************************************************)
maxPendingDeploys == 50

\* deployContract: a CreateExternal message to the EAM, sent the way native
\* messages are sent (nonce = counter read, incremented on successful push);
\* returns the message CID, here the pair that identifies the message
deployContract(ns, from, node, signOk, pushOk) ==
    LET r == pushMsg(ns, from, node, signOk, pushOk)
    IN  [nonces |-> r.nonces, evs |-> r.evs, ok |-> r.ok, msgCid |-> <<from, ns[from]>>]

\* what StateSearchMsg and the decoding make of one pending entry
Outcomes == {"notfound", "success", "undecodable", "failed"}

RECURSIVE remainingOf(_, _)
remainingOf(pending, out) ==
    IF pending = <<>> THEN <<>>
    ELSE (IF out[1] = "notfound" THEN <<Head(pending)>> ELSE <<>>)
         \o remainingOf(Tail(pending), Tail(out))

RECURSIVE confirmedOf(_, _)
confirmedOf(pending, out) ==
    IF pending = <<>> THEN <<>>
    ELSE (IF out[1] = "success"
          THEN <<[addr |-> Head(pending).msgCid, ctype |-> Head(pending).ctype,
                  deployer |-> Head(pending).deployer]>>
          ELSE <<>>)
         \o confirmedOf(Tail(pending), Tail(out))

\* resolvePendingDeploys: the queue is drained, each entry is looked up, the
\* unresolved ones are put back in front of whatever was queued meanwhile
resolveForgetsRegistry(pending, dc, out) ==
    [pendingDeploys |-> remainingOf(pending, out) \o <<>>,
     deployedContracts |-> confirmedOf(pending, out)]

\* a drain that leaves the entries it registered in the queue
resolveKeepsRegistered(pending, dc, out) ==
    [pendingDeploys |->
        remainingOf(pending, [i \in 1 .. Len(out) |->
                                 IF out[i] = "success" THEN "notfound" ELSE out[i]]) \o <<>>,
     deployedContracts |-> dc \o confirmedOf(pending, out)]

resolvePendingDeploys(pending, dc, out) ==
    [pendingDeploys |-> remainingOf(pending, out) \o <<>>,
     deployedContracts |-> dc \o confirmedOf(pending, out)]

\* the lookups of one invocation: only the oldest MaxReceipts entries of the
\* queue can have a receipt by now, the others are not found yet
Lookups(n) ==
    LET m == IF n < MaxReceipts THEN n ELSE MaxReceipts
    IN  {[i \in 1 .. n |-> IF i <= m THEN f[i] ELSE "notfound"] : f \in [1 .. m -> Outcomes]}

\* if len(pendingDeploys) < maxPendingDeploys { pendingDeploys = append(...) }
enqueueAlways(pending, pd) == Append(pending, pd)

enqueue(pending, pd) ==
    IF Len(pending) < maxPendingDeploys THEN Append(pending, pd) ELSE pending

\* deployments of this run that are queued or registered
Submitted(pending, dc) == Len(pending) + Len(dc) - Consumed(nonces0, Wallets)

\* the deployments queued at the start of the run that have left the queue
Resolved(pending) == Consumed(nonces0, Wallets) - Len(pending)

DoDeployContracts ==
    /\ Idle("DoDeployContracts")
    /\ Budget
    /\ \E out \in Lookups(Len(pendingDeploys)) :
       \E res \in {resolvePendingDeploys(pendingDeploys, deployedContracts, out)} :
       \E ctype \in ContractTypes, from \in Loaded, node \in Nodes, o \in SignPush :
          LET d   == deployContract(nonces, from, node, o[1], o[2])
              pd  == [msgCid |-> d.msgCid, ctype |-> ctype, deployer |-> from]
          IN  /\ Resolved(res.pendingDeploys) <= MaxReceipts
              /\ d.ok => Submitted(res.pendingDeploys, res.deployedContracts) < MaxContracts
              /\ StepObs("DoDeployContracts", d.nonces, d.evs, "idle", NoRace,
                         res.deployedContracts,
                         IF d.ok THEN enqueue(res.pendingDeploys, pd)
                         ELSE res.pendingDeploys,
                         out, <<>>, NoAnswers)

(***************************************************************************)
(* DoSelfDestructCycle: deploy, wait, destroy, wait, compare across nodes. *)
(* The two messages are two steps, the blocking wait for the deployment's  *)
(* receipt lying between them.                                             *)
(***************************************************************************)
\* invokeContract: an InvokeContract message to the contract, sent the way
\* native messages are sent
invokeContract(ns, from, node, signOk, pushOk) == pushMsg(ns, from, node, signOk, pushOk)

\* what StateWaitMsg and the decoding make of a message that was pushed
WaitOutcomes == {"error", "failed", "undecodable", "success"}

\* what StateGetActor returns for the destroyed contract
ActorAnswers == {"error", "nil", "code"}

\* the answers of the nodes that were asked for a key, a root or an actor
KeyAnswers(f) ==
    [n \in DOMAIN NoAnswers |-> IF n \in DOMAIN f THEN [Unasked EXCEPT !.key = f[n]] ELSE Unasked]

\* nodeResults holds the nodes that responded; allSame compares them
allSame(an) == Cardinality({an[n].key : n \in DOMAIN an} \ {"", "error"}) <= 1

\* one assert.Always call: its message, its condition, and the tipsets the
\* compared data were read at
Always(name, ok, anchor) == [name |-> name, ok |-> ok, anchor |-> anchor]

\* one assert.Sometimes call: a false condition fails nothing
Sometimes(name, ok, anchor) ==
    [name |-> name, ok |-> ok, anchor |-> anchor, sometimes |-> TRUE]

SelfDestructDeploy ==
    /\ Idle("DoSelfDestructCycle")
    /\ Budget
    /\ \E from \in Loaded, node \in Nodes, o \in SignPush, w \in WaitOutcomes :
          LET d == deployContract(nonces, from, node, o[1], o[2])
          IN  IF d.ok /\ w = "success"
              THEN Step("DoSelfDestructCycle", d.nonces, d.evs, "DoSelfDestructCycle",
                        [from |-> from, nonce |-> nonces[from], nodeA |-> node,
                         nodeB |-> node, pending |-> {"destroy"}, errs |-> {}],
                        deployedContracts, pendingDeploys)
              ELSE Step("DoSelfDestructCycle", d.nonces, d.evs, "idle", NoRace,
                        deployedContracts, pendingDeploys)

SelfDestructDestroy ==
    /\ active = "DoSelfDestructCycle"
    /\ \E calldataOk \in BOOLEAN, o \in SignPush, w \in WaitOutcomes \ {"undecodable"} :
          IF ~calldataOk
          THEN Step("DoSelfDestructCycle", nonces, <<>>, "idle", NoRace,
                    deployedContracts, pendingDeploys)
          ELSE LET r == invokeContract(nonces, race.from, race.nodeA, o[1], o[2])
               IN  IF ~(r.ok /\ w = "success") \/ Len(nodeKeys) < 2
                   THEN Step("DoSelfDestructCycle", r.nonces, r.evs, "idle", NoRace,
                             deployedContracts, pendingDeploys)
                   ELSE \E f \in [Nodes -> ActorAnswers] :
                           StepObs("DoSelfDestructCycle", r.nonces, r.evs, "idle", NoRace,
                                   deployedContracts, pendingDeploys, <<>>,
                                   <<Always("selfdestruct_state_correct",
                                            allSame(KeyAnswers(f)), "receipt")>>,
                                   KeyAnswers(f))

(***************************************************************************)
(* Chain monitor (DoChainMonitor and its six sub-checks) and the post-     *)
(* reorg verification. A check is a sequence of query rounds; each round   *)
(* is one step, race.pending names the round still to run, rpc gathers     *)
(* what the nodes answered in the rounds of the invocation so far.         *)
(***************************************************************************)
finalizedMinHeight == 5

f3MinEpoch == 10

\* heights a node reports: below both thresholds, at f3MinEpoch, and more
\* than ten epochs further
Heights == {4, 10, 21}

\* ChainHead, ChainGetFinalizedTipSet: a height, or -1 for an RPC error
HeightAnswers == Heights \cup {-1}

\* getFinalizedHeight also meets heights at and just above finalizedMinHeight
FinalizedAnswers == HeightAnswers \cup {5, 7}

\* ChainGetTipSetByHeight under the finalized tipset: a tipset key or a
\* parent state root, or an RPC error of either call
TipsetAnswers == {"error", "a", "b"}

\* NetPeers: a peer count, or -1 for an RPC error
PeerAnswers == {-1, 0, 1}

\* ChainGetParentMessages, ChainGetParentReceipts: a length, or -1 for an RPC error
CountAnswers == {-1, 1, 2}

checkNames ==
    <<"doTipsetConsensus", "doHeightProgression", "doPeerCount", "doHeadComparison",
      "doStateRootComparison", "doStateAudit">>

\* the answers of a loop over n nodes that returns at the first answer in stop
RECURSIVE AskInOrder(_, _, _)
AskInOrder(n, vals, stop) ==
    IF n = 0 THEN {<<>>}
    ELSE {<<v>> : v \in vals \cap stop}
         \cup {<<v>> \o t : v \in vals \ stop, t \in AskInOrder(n - 1, vals, stop)}

\* the answers of a loop that asks every node
AskAll(n, vals) == [1 .. n -> vals]

NodeIdx(name) == CHOOSE i \in 1 .. Len(NodeNames) : NodeNames[i] = name

\* an: the answers so far, with the answers s of the nodes asked for field
Answered(an, field, s) ==
    [name \in DOMAIN an |->
        IF NodeIdx(name) <= Len(s)
        THEN [an[name] EXCEPT ![field] = s[NodeIdx(name)]]
        ELSE an[name]]

\* the round of the in-flight check that runs next
Goto(round) == [NoRace EXCEPT !.pending = {round}]

Round(round) == race.pending = {round}

\* one round of a check: it sends no message and touches no counter
CheckStep(vec, act, rc, as, an) ==
    StepObs(vec, nonces, <<>>, act, rc, deployedContracts, pendingDeploys, <<>>, as, an)

Min(S) == CHOOSE x \in S : \A y \in S : x <= y

Max(S) == CHOOSE x \in S : \A y \in S : x >= y

Range(s) == {s[i] : i \in 1 .. Len(s)}

DoChainMonitor ==
    /\ Idle("DoChainMonitor")
    /\ \E r \in 0 .. MaxRand :
          LET check == checkNames[rngIntn(r, Len(checkNames)) + 1]
          IN  IF check \notin {"doHeightProgression", "doPeerCount"} /\ Len(nodeKeys) < 2
              THEN CheckStep(check, "idle", NoRace, <<>>, NoAnswers)
              ELSE CheckStep(check, check,
                             Goto(CASE check = "doHeightProgression" -> "heights"
                                    [] check = "doPeerCount" -> "peers"
                                    [] OTHER -> "heads"),
                             <<>>, NoAnswers)

\* allNodesPastEpoch: false at the first node that fails or is below minEpoch
allNodesPastEpoch(s, minEpoch) == \A i \in 1 .. Len(s) : s[i] # -1 /\ s[i] >= minEpoch

PastEpoch ==
    /\ active \in {"doTipsetConsensus", "doHeadComparison", "doStateRootComparison",
                   "doStateAudit"}
    /\ Round("heads")
    /\ \E s \in AskInOrder(Len(nodeKeys), HeightAnswers, {h \in HeightAnswers : h < f3MinEpoch}) :
          IF allNodesPastEpoch(s, f3MinEpoch)
          THEN CheckStep(active, active,
                         Goto(IF active = "doHeadComparison" THEN "finkeys" ELSE "finalized"),
                         <<>>, Answered(rpc, "head", s))
          ELSE CheckStep(active, "idle", NoRace, <<>>, Answered(rpc, "head", s))

\* getFinalizedHeight: the minimum finalized height, 0 if any node fails
getFinalizedHeight(s) == IF -1 \in Range(s) THEN 0 ELSE Min(Range(s))

Finalized ==
    /\ active \in {"doTipsetConsensus", "doStateRootComparison", "doStateAudit",
                   "DoReorgChaos"}
    /\ Round("finalized")
    /\ \E s \in AskInOrder(Len(nodeKeys), FinalizedAnswers, {-1}) :
          IF getFinalizedHeight(s) < finalizedMinHeight
          THEN CheckStep(active, "idle", NoRace, <<>>, Answered(rpc, "fin", s))
          ELSE CheckStep(active, active, Goto("keys"), <<>>, Answered(rpc, "fin", s))

\* the draw without the reduction to the finalized height
checkHeightUnreduced(r, finalizedHeight) == r + 1

\* checkHeight := abi.ChainEpoch(rngIntn(int(finalizedHeight)) + 1)
checkHeight(r, finalizedHeight) == rngIntn(r, finalizedHeight) + 1

\* the finalized height the check got from getFinalizedHeight
finalizedHeight == getFinalizedHeight([i \in 1 .. Len(nodeKeys) |-> rpc[NodeNames[i]].fin])

\* ChainGetTipSetByHeight(ctx, checkHeight, finTs.Key()) on the nodes that
\* gave the answers s: what they answered and the height they were asked at
AskedAt(an, s, height) ==
    Answered(Answered(an, "key", s), "at", [i \in 1 .. Len(s) |-> height])

\* the values the nodes that answered gave
Given(s) == Range(s) \ {"error"}

\* doTipsetConsensus: consensusReached := len(tipsetKeys) == 1 && errs == 0
consensusReached(s) == Cardinality(Given(s)) = 1 /\ "error" \notin Range(s)

\* the goroutines ask every node; nothing is asserted only when all failed
TipsetKeys ==
    /\ active = "doTipsetConsensus"
    /\ Round("keys")
    /\ \E s \in AskAll(Len(nodeKeys), TipsetAnswers), r \in 0 .. MaxRand :
          CheckStep(active, "idle", NoRace,
                    IF Given(s) = {} THEN <<>>
                    ELSE <<Always("All nodes agree on the same finalized tipset",
                                  consensusReached(s), "finalized")>>,
                    AskedAt(rpc, s, checkHeight(r, finalizedHeight)))

\* the message of the state-root assertion of each check
RootsMessage ==
    [doStateRootComparison |-> "Chain state is consistent across all nodes",
     doStateAudit          |-> "State root is consistent after FVM execution",
     DoReorgChaos          |-> "post_reorg_state_consistent"]

\* statesMatch := len(stateRoots) == 1
statesMatch(s) == Cardinality(Range(s)) = 1

\* the loop returns at the first node that fails; the roots are compared
\* only when every node answered
StateRoots ==
    /\ active \in DOMAIN RootsMessage
    /\ Round("keys")
    /\ \E s \in AskInOrder(Len(nodeKeys), TipsetAnswers, {"error"}),
          height \in {checkHeight(r, finalizedHeight) : r \in 0 .. MaxRand} :
          IF "error" \in Range(s)
          THEN CheckStep(active, "idle", NoRace, <<>>, AskedAt(rpc, s, height))
          ELSE CheckStep(active,
                         IF active = "doStateRootComparison"
                            \/ (active = "doStateAudit" /\ ~statesMatch(s))
                         THEN "idle" ELSE active,
                         IF active = "doStateRootComparison"
                            \/ (active = "doStateAudit" /\ ~statesMatch(s))
                         THEN NoRace
                         ELSE Goto(IF active = "doStateAudit" THEN "counts" ELSE "spread"),
                         <<Always(RootsMessage[active], statesMatch(s), "finalized")>>,
                         AskedAt(rpc, s, height))

\* doStateAudit, phase 2, for the block of the tipset: the first two nodes
\* are asked for the parent messages, then for the parent receipts; an error
\* in either pair skips the block
ParentCounts ==
    /\ active = "doStateAudit"
    /\ Round("counts")
    /\ \E m \in AskAll(2, CountAnswers) :
          IF -1 \in Range(m)
          THEN CheckStep(active, "idle", NoRace, <<>>, Answered(rpc, "msgs", m))
          ELSE \E r \in AskAll(2, CountAnswers) :
                  CheckStep(active, "idle", NoRace,
                            IF -1 \in Range(r) THEN <<>>
                            ELSE <<Always("Parent messages match across nodes",
                                          m[1] = m[2], "finalized"),
                                   Always("Parent receipts match across nodes",
                                          r[1] = r[2], "finalized"),
                                   Always("Message and receipt counts match",
                                          m[1] = r[1], "finalized")>>,
                            Answered(Answered(rpc, "msgs", m), "rcpts", r))

\* spread := maxH - minH; acceptable := spread <= 10
acceptable(heights) == Max(heights) - Min(heights) <= 10

\* doHeightProgression: the finalized heights of the nodes that answered;
\* nothing is asserted when none answered or the lowest of them is under
\* finalizedMinHeight
HeightProgression ==
    /\ active = "doHeightProgression"
    /\ Round("heights")
    /\ \E s \in AskAll(Len(nodeKeys), HeightAnswers) :
          LET heights == Range(s) \ {-1}
          IN  CheckStep(active, "idle", NoRace,
                        IF heights = {} \/ Min(heights) < finalizedMinHeight THEN <<>>
                        ELSE <<Sometimes("Node chain heights are within acceptable range",
                                         acceptable(heights), "finalized"),
                               Sometimes("All nodes have advanced past genesis",
                                         Min(heights) > 0, "finalized")>>,
                        Answered(rpc, "fin", s))

\* one assertion per node that answered, in node order
RECURSIVE peerAsserts(_, _)
peerAsserts(s, message) ==
    IF s = <<>> THEN <<>>
    ELSE (IF Head(s) = -1 THEN <<>> ELSE <<Always(message, Head(s) > 0, "none")>>)
         \o peerAsserts(Tail(s), message)

\* doPeerCount, and check 1 of verifyPostReorgState
Peers ==
    /\ active \in {"doPeerCount", "DoReorgChaos"}
    /\ Round("peers")
    /\ \E s \in AskAll(Len(nodeKeys), PeerAnswers) :
          IF active = "doPeerCount"
          THEN CheckStep(active, "idle", NoRace,
                         peerAsserts(s, "Node has active peer connections"),
                         Answered(rpc, "peers", s))
          ELSE CheckStep(active, active, Goto("finalized"),
                         peerAsserts(s, "post_reorg_network_healed"),
                         Answered(rpc, "peers", s))

\* doHeadComparison: each node's finalized tipset, its height and its key;
\* the nodes that fail are left out
FinalizedTipsets ==
    {<<-1, "">>} \cup {<<h, k>> : h \in Heights, k \in TipsetAnswers \ {"error"}}

\* one assertion per height that two or more nodes are at, lowest first
RECURSIVE sameHeightAsserts(_, _)
sameHeightAsserts(s, hs) ==
    IF hs = {} THEN <<>>
    ELSE LET h     == Min(hs)
             group == {i \in 1 .. Len(s) : s[i][1] = h}
         IN  (IF Cardinality(group) < 2 THEN <<>>
              ELSE <<Always("Nodes at the same height agree on the same tipset",
                            Cardinality({s[i][2] : i \in group}) = 1, "finalized")>>)
             \o sameHeightAsserts(s, hs \ {h})

HeadComparison ==
    /\ active = "doHeadComparison"
    /\ Round("finkeys")
    /\ \E s \in AskAll(Len(nodeKeys), FinalizedTipsets) :
          LET heads == {i \in 1 .. Len(s) : s[i][1] # -1}
              an    == Answered(Answered(rpc, "fin", [i \in 1 .. Len(s) |-> s[i][1]]),
                                "key", [i \in 1 .. Len(s) |-> s[i][2]])
          IN  CheckStep(active, "idle", NoRace,
                        IF Cardinality(heads) < 2 THEN <<>>
                        ELSE sameHeightAsserts(s, {s[i][1] : i \in heads}),
                        an)

(***************************************************************************)
(* reorg_vectors.go: DoReorgChaos and verifyPostReorgState.                *)
(***************************************************************************)
\* one partition cycle: NetPeers fails (break), the victim has no peers
\* (reconnect and continue), or split, wait, heal
CycleOutcomes == {"error", "nopeers", "ok"}

\* numCycles := rngIntn(reorgMaxCyclesPerCall) + 1, up to MaxCycles here
CycleRuns == UNION {[1 .. n -> CycleOutcomes] : n \in 1 .. MaxCycles}

RECURSIVE successfulCycles(_)
successfulCycles(c) ==
    IF c = <<>> \/ Head(c) = "error" THEN 0
    ELSE (IF Head(c) = "ok" THEN 1 ELSE 0) + successfulCycles(Tail(c))

\* if successfulCycles == 0 { return }
reorgVerifies(n) == n # 0

DoReorgChaos ==
    /\ Idle("DoReorgChaos")
    /\ IF Len(nodeKeys) < 2
       THEN CheckStep("DoReorgChaos", "idle", NoRace, <<>>, NoAnswers)
       ELSE \E victim \in Nodes, n \in {successfulCycles(c) : c \in CycleRuns} :
               IF reorgVerifies(n)
               THEN CheckStep("DoReorgChaos", "DoReorgChaos", Goto("peers"), <<>>, NoAnswers)
               ELSE CheckStep("DoReorgChaos", "idle", NoRace, <<>>, NoAnswers)

\* check 3: the heights of the nodes' chain heads, failed nodes left out
headSpread(s) == Max(Range(s) \ {-1}) - Min(Range(s) \ {-1})

HeightSpread ==
    /\ active = "DoReorgChaos"
    /\ Round("spread")
    /\ \E s \in AskAll(Len(nodeKeys), HeightAnswers) :
          CheckStep(active, "idle", NoRace,
                    IF Cardinality({i \in 1 .. Len(s) : s[i] # -1}) < 2 THEN <<>>
                    ELSE <<Always("post_reorg_height_spread_ok", headSpread(s) <= 10, "head")>>,
                    Answered(rpc, "head", s))

(***************************************************************************)
(* foc_helpers.go: sendEthTx and the EVM nonce cache.                      *)
(***************************************************************************)
EthStep(es, act, e, cache, mu) ==
    /\ op' = "sendEthTx"
    /\ evs' = es
    /\ active' = act
    /\ eth' = e
    /\ ethNonces' = cache
    /\ ethNoncesMu' = mu
    /\ receipts' = <<>>
    /\ asserts' = <<>>
    /\ rpc' = NoAnswers
    /\ chain' = chain
    /\ compute' = compute
    /\ reorg' = reorg
    /\ sends' = sends
    /\ server' = server
    /\ resp' = resp
    /\ UNCHANGED <<deckVars, nodeKeys, nonces, lastPushed, race,
                   deployedContracts, pendingDeploys, focConfig, pool, bootVars>>

\* len(privKey) != 32, deriveFilAddr fails: return false; else ethNoncesMu.Lock()
EthBegin ==
    /\ active = "idle"
    /\ focConfig
    /\ \E key \in EthKeys \cup {""} :
          IF key = ""
          THEN EthStep(<<>>, "idle", NoEth, ethNonces, ethNoncesMu)
          ELSE /\ key \in DOMAIN ethNonces => ethNonces[key] < MaxEthNonce
               /\ EthStep(<<>>, "sendEthTx",
                          [NoEth EXCEPT !.pos = "locked", !.key = key],
                          ethNonces, TRUE)

\* ethNonces[senderAddr] = nonce + 1
reserveNoAdvance(cache, key, nonce) ==
    [k \in DOMAIN cache \cup {key} |-> IF k = key THEN nonce ELSE cache[k]]

reserve(cache, key, nonce) ==
    [k \in DOMAIN cache \cup {key} |-> IF k = key THEN nonce + 1 ELSE cache[k]]

\* nonce, known := ethNonces[senderAddr]: the cached value, or the node's
nonceSource(cache, key) == IF key \in DOMAIN cache THEN "cache" ELSE "node"

\* the critical section of sendEthTx
EthReserve ==
    /\ active = "sendEthTx"
    /\ eth.pos = "locked"
    /\ ethNoncesMu
    /\ \E n \in -1 .. MaxEthNonce - 1 :
          LET src   == nonceSource(ethNonces, eth.key)
              nonce == IF src = "cache" /\ eth.key \in DOMAIN ethNonces
                       THEN ethNonces[eth.key] ELSE n
          IN  IF src = "node" /\ n = -1         \* MpoolGetNonce failed
              THEN EthStep(<<>>, "idle", NoEth, ethNonces, FALSE)
              ELSE EthStep(<<>>, "sendEthTx",
                           [eth EXCEPT !.pos = "reserved", !.nonce = nonce, !.source = src,
                                       !.locked = ethNoncesMu],
                           reserve(ethNonces, eth.key, nonce), FALSE)

\* a failure between the critical section and the submission that gives
\* the reserved nonce back by dropping the sender's entry
signFailedInvalidates(cache, key) == [k \in DOMAIN cache \ {key} |-> cache[k]]

\* log.Printf(...); return false: the cache is not touched
signFailed(cache, key) == cache

\* CastEthAddress, ToRlpUnsignedMsg, sigs.Sign, InitialiseSignature,
\* ToRlpSignedMsg: any failure returns false and leaves the cache as it is
EthSign ==
    /\ active = "sendEthTx"
    /\ eth.pos = "reserved"
    /\ \E ok \in BOOLEAN :
          EthStep(<<SignEv("evm", eth.key, eth.nonce, eth.locked, ok)>>,
                  IF ok THEN "sendEthTx" ELSE "idle",
                  IF ok THEN [eth EXCEPT !.pos = "signed"] ELSE NoEth,
                  IF ok THEN ethNonces ELSE signFailed(ethNonces, eth.key), ethNoncesMu)

\* EthSendRawTransaction failed: delete(ethNonces, senderAddr) under the lock
invalidateKeep(cache, key) == cache

invalidate(cache, key) == [k \in DOMAIN cache \ {key} |-> cache[k]]

EthSend ==
    /\ active = "sendEthTx"
    /\ eth.pos = "signed"
    /\ \E node \in Nodes, ok \in BOOLEAN :
          EthStep(<<PushEv("evm", eth.key, eth.nonce, node, ok)>>, "idle", NoEth,
                  IF ok THEN ethNonces ELSE invalidate(ethNonces, eth.key),
                  ethNoncesMu)

(***************************************************************************)
(* buildDeck of the two executables, and the outcome of its fatal check.   *)
(***************************************************************************)
RECURSIVE buildDeckFrom(_, _, _)
buildDeckFrom(e, i, d) ==
    IF i > Len(actions) THEN d
    ELSE LET a == actions[i]
             w == envInt(e[a.envVar], a.defWeight)
         IN  buildDeckFrom(e, i + 1, d \o Copies(namedAction(a), w))

buildDeckEngine(e) == buildDeckFrom(e, 1, <<>>)

RECURSIVE buildDeckCat(_, _, _, _)
buildDeckCat(e, x, i, d) ==
    IF i > Len(categories(x)) THEN d
    ELSE LET cat == categories(x)[i]
             w == envInt(e[cat.envVar], cat.defWeight)
         IN  IF w <= 0 \/ Len(cat.attacks) = 0
             THEN buildDeckCat(e, x, i + 1, d)
             ELSE buildDeckCat(e, x, i + 1, d \o Repeat(cat.attacks, w))

buildDeckFuzzer(e, x) == buildDeckCat(e, x, 1, <<>>)

buildDeck(p, e, x) == IF p = "engine" THEN buildDeckEngine(e) ELSE buildDeckFuzzer(e, x)

\* if len(deck) == 0 { log.Fatal(...) }
deckFatalNever(d) == FALSE

deckFatal(d) == Len(d) = 0

(***************************************************************************)
(* The environments a run is started in: every weight variable of the      *)
(* executable is unset, unparsable or 0, except at most MaxEnvSet of them.  *)
(***************************************************************************)
EnvsOver(V, enabled) ==
    UNION { UNION { { [v \in EnvNames |->
                          IF v \in S THEN f[v]
                          ELSE IF v \in V THEN base
                          ELSE IF v = "FUZZER_ENABLED" THEN enabled
                          ELSE Unset]
                      : f \in [S -> EnvVals] }
                    : S \in {T \in SUBSET V : Cardinality(T) <= MaxEnvSet} }
            : base \in {Unset, Bad, Num(0)} }

InitDeck ==
    /\ proc \in {"engine", "fuzzer"}
    /\ env \in IF proc = "engine" THEN EnvsOver(EngineVars, Unset)
                ELSE EnvsOver(FuzzerVars, Unset) \cup EnvsOver({}, Num(1))
                     \cup EnvsOver({}, Num(0)) \cup EnvsOver({}, Bad)
    /\ extra \in IF proc = "engine" THEN {0} ELSE 0 .. MaxExtraAttacks
    /\ pc = "start"
    /\ deck = <<>>
    /\ idx = -1
    /\ stage = "none"
    /\ EngineIdle
    /\ pool = NoPool

(***************************************************************************)
(* main(): buildDeck, then  for { pick; run; (sleep) }.                    *)
(***************************************************************************)
\* envOrDefault("FUZZER_ENABLED", "1") != "1": main() returns before anything is built
fuzzerDisabled(p, e) == p = "fuzzer" /\ e["FUZZER_ENABLED"].set /\ e["FUZZER_ENABLED"] # Num(1)

Disabled ==
    /\ pc = "start"
    /\ fuzzerDisabled(proc, env)
    /\ pc' = "exit"
    /\ UNCHANGED <<proc, env, extra, deck, idx, stage>>
    /\ UNCHANGED engineVars

BuildDeck ==
    /\ pc = "start"
    /\ ~fuzzerDisabled(proc, env)
    /\ deck' = buildDeck(proc, env, extra)
    /\ pc' = IF deckFatal(deck') THEN "fatal" ELSE "pick"
    /\ stage' = IF deckFatal(deck') THEN stage ELSE "built"
    /\ UNCHANGED <<proc, env, extra, idx>>
    /\ UNCHANGED engineVars

\* idx := rngIntn(len(deck)); action := deck[idx]
pickIndex(r, d) == rngIntn(r, Len(d))

Pick ==
    /\ pc = "pick"
    /\ \E r \in 0 .. MaxRand : idx' = pickIndex(r, deck)
    /\ pc' = "run"
    /\ UNCHANGED <<proc, env, extra, deck, stage>>
    /\ UNCHANGED engineVars

\* where main() goes when the action has returned
afterActionNoSleep(p) == "pick"

afterAction(p) == IF p = "fuzzer" THEN "sleep" ELSE "pick"

RunAction ==
    /\ pc = "run"
    /\ pc' = afterAction(proc)
    /\ stage' = "action"
    /\ UNCHANGED <<proc, env, extra, deck, idx>>
    /\ UNCHANGED engineVars

\* time.Sleep(interval), fuzzer only
Sleep ==
    /\ pc = "sleep"
    /\ pc' = "pick"
    /\ stage' = "sleep"
    /\ UNCHANGED <<proc, env, extra, deck, idx>>
    /\ UNCHANGED engineVars

NextDeck == Disabled \/ BuildDeck \/ Pick \/ RunAction \/ Sleep

SpecDeck == InitDeck /\ [][NextDeck]_vars

(***************************************************************************)
(* Startup of the two executables, up to buildDeck.                        *)
(***************************************************************************)
\* chain.ConnectNodes: the configured names that accept a connection, in order
ConnectNodes(names, up) == SelectSeq(names, LAMBDA n : n \in up)

\* if len(nodes) == 0 { return ..., fmt.Errorf("no nodes connected") }, and
\* connectNodes() makes the error fatal
connectNodesFatalNever(keys) == FALSE

connectNodesFatal(keys) == Len(keys) = 0

connectNodes ==
    /\ proc = "engine"
    /\ pc = "connectNodes"
    /\ \E up \in SUBSET {NodeNames[i] : i \in 1 .. Len(NodeNames)} :
          nodeKeys' = ConnectNodes(NodeNames, up)
    /\ pc' = IF connectNodesFatal(nodeKeys') THEN "fatal" ELSE "loadKeystore"
    /\ UNCHANGED <<proc, env, extra, deck, idx, stage>>
    /\ UNCHANGED <<nonces, deployedContracts, pendingDeploys, active, race, op, evs,
                   lastPushed, ethVars, focConfig, pool, bootVars, obsVars>>

\* the entries whose address and private key both decode
validKeys(entries, valid) == SelectSeq(entries, LAMBDA e : e \in valid)

\* os.ReadFile or json.Unmarshal failed, or no entry was usable
loadKeystoreFatal(file, loaded) == file # "parsed" \/ Len(loaded) = 0

loadKeystore ==
    /\ pc = "loadKeystore"
    /\ \E file \in {"unreadable", "unparsable", "parsed"}, valid \in SUBSET Wallets :
          /\ file # "parsed" => valid = {}
          /\ keyfile' = file
          /\ addrs' = validKeys(KeystoreEntries, valid)
          /\ pc' = IF loadKeystoreFatal(file, addrs') THEN "fatal" ELSE "waitForChain"
    /\ UNCHANGED <<proc, env, extra, deck, idx, stage>>
    /\ UNCHANGED <<nodeKeys, nonces, deployedContracts, pendingDeploys, active, race, op,
                   evs, lastPushed, ethVars, focConfig, pool, nonces0, targets, attempts, obsVars>>

\* the loop returns once the first node's head is at the target height
waitForChain ==
    /\ pc = "waitForChain"
    /\ pc' = "initNonces"
    /\ UNCHANGED <<proc, env, extra, deck, idx, stage>>
    /\ UNCHANGED engineVars

\* nonces[addr] = MpoolGetNonce(addr) of the first node, 0 when the call fails
initNonces ==
    /\ pc = "initNonces"
    /\ \E n \in [Wallets -> 0 .. MaxInitNonce] :
          nonces' = [w \in Wallets |->
                        IF \E i \in 1 .. Len(addrs) : addrs[i] = w THEN n[w] ELSE 0]
    /\ nonces0' = nonces'
    /\ pc' = "start"
    /\ UNCHANGED <<proc, env, extra, deck, idx, stage>>
    /\ UNCHANGED <<nodeKeys, deployedContracts, pendingDeploys, active, race, op, evs,
                   lastPushed, ethVars, focConfig, pool, keyfile, addrs, targets, attempts, obsVars>>

\* if envOrDefault("FUZZER_ENABLED", "1") != "1" { return }
checkEnabled ==
    /\ proc = "fuzzer"
    /\ pc = "checkEnabled"
    /\ pc' = IF fuzzerDisabled(proc, env) THEN "exit" ELSE "waitForNodes"
    /\ UNCHANGED <<proc, env, extra, deck, idx, stage>>
    /\ UNCHANGED engineVars

\* discoverNodes: the names whose address file is there and parses, in order
discoverNodes(names, found) == SelectSeq(names, LAMBDA n : n \in found)

\* the deadline has passed without a discovery: log.Fatal
waitForNodesFatalNever(n) == FALSE

waitForNodesFatal(n) == n >= MaxAttempts

waitForNodes ==
    /\ pc = "waitForNodes"
    /\ IF waitForNodesFatal(attempts)
       THEN /\ pc' = "fatal"
            /\ UNCHANGED <<targets, attempts>>
       ELSE \E found \in SUBSET {NodeNames[i] : i \in 1 .. Len(NodeNames)} :
               LET ts == discoverNodes(NodeNames, found)
               IN  IF Len(ts) > 0
                   THEN /\ targets' = ts
                        /\ pc' = "loadNetworkName"
                        /\ UNCHANGED attempts
                   ELSE /\ attempts' = attempts + 1
                        /\ UNCHANGED <<targets, pc>>
    /\ UNCHANGED <<proc, env, extra, deck, idx, stage>>
    /\ UNCHANGED <<nodeKeys, nonces, deployedContracts, pendingDeploys, active, race, op,
                   evs, lastPushed, ethVars, focConfig, pool, nonces0, keyfile, addrs, obsVars>>

\* loadNetworkName: the name file is read within the window, or log.Fatal
loadNetworkName ==
    /\ pc = "loadNetworkName"
    /\ \E ok \in BOOLEAN : pc' = IF ok THEN "discoverGenesisCID" ELSE "fatal"
    /\ UNCHANGED <<proc, env, extra, deck, idx, stage>>
    /\ UNCHANGED engineVars

\* discoverGenesisCID: lotus0 answers within the window, or log.Fatal
discoverGenesisCID ==
    /\ pc = "discoverGenesisCID"
    /\ \E ok \in BOOLEAN : pc' = IF ok THEN "start" ELSE "fatal"
    /\ UNCHANGED <<proc, env, extra, deck, idx, stage>>
    /\ UNCHANGED engineVars

\* main() from its first statement
InitStart ==
    /\ proc \in {"engine", "fuzzer"}
    /\ env \in IF proc = "engine" THEN EnvsOver({}, Unset)
                ELSE EnvsOver({}, Unset) \cup EnvsOver({}, Num(0))
    /\ extra = 0
    /\ pc = IF proc = "engine" THEN "connectNodes" ELSE "checkEnabled"
    /\ deck = <<>>
    /\ idx = -1
    /\ stage = "none"
    /\ EngineIdle
    /\ pool = NoPool

NextStart ==
    \/ connectNodes
    \/ loadKeystore
    \/ waitForChain
    \/ initNonces
    \/ checkEnabled
    \/ waitForNodes
    \/ loadNetworkName
    \/ discoverGenesisCID
    \/ BuildDeck
    \/ Pick
    \/ RunAction
    \/ Sleep

SpecStart == InitStart /\ [][NextStart]_vars

\* the vectors a run's deck holds, whether its FOC environment is loaded, the
\* deployments queued when it starts, and the entries of its keystore
Runs ==
    { [vectors |-> {"DoTransferMarket", "DoGasWar"}, foc |-> FALSE, queued |-> 0,
       keys |-> KeystoreEntries],
      [vectors |-> {"DoAdversarial"}, foc |-> FALSE, queued |-> 0,
       keys |-> KeystoreEntries],
      [vectors |-> {"DoDeployContracts", "DoConflictingContractCalls"}, foc |-> FALSE,
       queued |-> 0, keys |-> SubSeq(KeystoreEntries, 1, 2)],
      [vectors |-> {"DoChainMonitor"}, foc |-> TRUE, queued |-> 0,
       keys |-> KeystoreEntries] }

\* runs of the deploy vector alone, on a keystore of one wallet, that start
\* with an empty queue, with a queue one short of its cap, and with a queue
\* at its cap
QueueRuns ==
    { [vectors |-> {"DoDeployContracts"}, foc |-> FALSE, queued |-> n,
       keys |-> SubSeq(KeystoreEntries, 1, 1)] :
         n \in {0, maxPendingDeploys - 1, maxPendingDeploys} }

\* a run of the vectors that write, read or could touch the registry, on a
\* keystore of one wallet
RegistryRuns ==
    { [vectors |-> {"DoDeployContracts", "DoConflictingContractCalls",
                    "DoSelfDestructCycle"},
       foc |-> FALSE, queued |-> 0, keys |-> SubSeq(KeystoreEntries, 1, 1)] }

\* the queue after n deployments by the first wallet whose receipts are not there yet
Queued(n) ==
    [i \in 1 .. n |-> [msgCid |-> <<KeystoreEntries[1], i - 1>>,
                       ctype |-> "simplecoin", deployer |-> KeystoreEntries[1]]]

\* the environment that puts exactly these vectors in the deck
RunEnv(vs) ==
    [v \in EnvNames |->
        IF \E i \in 1 .. Len(actions) : actions[i].envVar = v /\ actions[i].name \in vs
        THEN Num(1)
        ELSE IF v \in EngineVars THEN Num(0) ELSE Unset]

\* connectNodes, loadKeystore, initNonces, buildDeck have run; main() is in its loop
InitRun(r) ==
    /\ proc = "engine"
    /\ env = RunEnv(r.vectors)
    /\ focConfig = r.foc
    /\ pendingDeploys = Queued(r.queued)
    /\ nonces = [w \in Wallets |-> IF w = KeystoreEntries[1] THEN r.queued ELSE 0]
    /\ lastPushed = [w \in Wallets |->
                        IF w = KeystoreEntries[1] /\ r.queued > 0
                        THEN [nonce |-> r.queued - 1, free |-> FALSE]
                        ELSE NoPush]
    /\ extra = 0
    /\ deck = buildDeckEngine(env)
    /\ pc = "run"
    /\ idx = 0
    /\ stage = "built"
    /\ nodeKeys \in {SubSeq(NodeNames, 1, n) : n \in 1 .. Len(NodeNames)}
    /\ deployedContracts = <<>>
    /\ active = "idle"
    /\ race = NoRace
    /\ op = "none"
    /\ evs = <<>>
    /\ ethNonces = NoEntries
    /\ ethNoncesMu = FALSE
    /\ eth = NoEth
    /\ nonces0 = nonces
    /\ keyfile = "parsed"
    /\ addrs = r.keys
    /\ targets = <<>>
    /\ attempts = 0
    /\ receipts = <<>>
    /\ asserts = <<>>
    /\ rpc = NoAnswers
    /\ chain = NoChain
    /\ compute = NoCompute
    /\ reorg = NoReorg
    /\ sends = NoSends
    /\ server = NoServer
    /\ resp = NoResp
    /\ pool = NoPool

Init == \E r \in Runs : InitRun(r)

\* the deploy vector alone, on a single node
InitQueue == \E r \in QueueRuns : InitRun(r) /\ Len(nodeKeys) = 1

NextQueue == DoDeployContracts

SpecQueue == InitQueue /\ [][NextQueue]_vars

Next ==
    \/ DoTransferMarket
    \/ DoGasWar
    \/ doDoubleSpend
    \/ doInvalidSignature
    \/ doNonceRace
    \/ DoConflictingContractCalls
    \/ RacePush
    \/ RaceJoin
    \/ DoDeployContracts
    \/ EthBegin
    \/ EthReserve
    \/ EthSign
    \/ EthSend

Spec == Init /\ [][Next]_vars

InitRegistry == \E r \in RegistryRuns : InitRun(r)

NextRegistry ==
    \/ DoDeployContracts
    \/ DoConflictingContractCalls
    \/ RacePush
    \/ RaceJoin
    \/ SelfDestructDeploy
    \/ SelfDestructDestroy

SpecRegistry == InitRegistry /\ [][NextRegistry]_vars

\* the vectors that assert on what the nodes report, one per run
AuditRuns ==
    { [vectors |-> {v}, foc |-> FALSE, queued |-> 0, keys |-> KeystoreEntries] :
         v \in {"DoChainMonitor", "DoReorgChaos", "DoSelfDestructCycle"} }

InitAudit == \E r \in AuditRuns : InitRun(r)

NextAudit ==
    \/ DoChainMonitor
    \/ PastEpoch
    \/ Finalized
    \/ TipsetKeys
    \/ StateRoots
    \/ ParentCounts
    \/ HeightProgression
    \/ Peers
    \/ HeadComparison
    \/ DoReorgChaos
    \/ HeightSpread
    \/ SelfDestructDeploy
    \/ SelfDestructDestroy

SpecAudit == InitAudit /\ [][NextAudit]_vars

(***************************************************************************)
(* identity.go: the fuzzer's IdentityPool. Hosts are numbered in the order *)
(* createHost made them; log keeps, per host, what it was made for, the    *)
(* budget it was made with and how often GetForGossip handed it out.       *)
(***************************************************************************)
\* createHost: the host it returns when it succeeds
createHost(p) == Len(p.log) + 1

Returned(p, h, err) == [p EXCEPT !.ret = [h |-> h, err |-> err], !.evicted = 0]

Logged(p, kind, budget, uses) ==
    [p EXCEPT !.log = Append(@, [kind |-> kind, budget |-> budget, uses |-> uses])]

GetForStreamAlwaysCreates(p, ok) ==
    IF ~ok THEN Returned(p, 0, TRUE)
    ELSE [Returned(Logged(p, "stream", 0, 0), createHost(p), FALSE)
             EXCEPT !.streamHost = createHost(p)]

GetForStream(p, ok) ==
    IF p.streamHost # 0 THEN Returned(p, p.streamHost, FALSE)
    ELSE IF ~ok THEN Returned(p, 0, TRUE)
    ELSE [Returned(Logged(p, "stream", 0, 0), createHost(p), FALSE)
             EXCEPT !.streamHost = createHost(p)]

\* if p.budgets[h] > 0
hasBudgetAtZero(p, h) == p.budgets[h] >= 0

\* a pool that never looks for a host with budget left
hasBudgetNever(p, h) == FALSE

hasBudget(p, h) == p.budgets[h] > 0

\* old := p.hosts[0]; old.Close(); delete(p.budgets, old); p.hosts = p.hosts[1:]
evictNewest(p) ==
    LET old == p.hosts[Len(p.hosts)]
    IN  [p EXCEPT !.closed = @ \cup {old},
                  !.budgets = [h \in DOMAIN p.budgets \ {old} |-> p.budgets[h]],
                  !.hosts = SubSeq(@, 1, Len(@) - 1),
                  !.evicted = old]

evict(p) ==
    LET old == p.hosts[1]
    IN  [p EXCEPT !.closed = @ \cup {old},
                  !.budgets = [h \in DOMAIN p.budgets \ {old} |-> p.budgets[h]],
                  !.hosts = Tail(@),
                  !.evicted = old]

GetForGossip(p, budget, ok) ==
    LET ready == {i \in 1 .. Len(p.hosts) : hasBudget(p, p.hosts[i])}
    IN  IF ready # {}
        THEN LET h == p.hosts[Min(ready)]
             IN  [Returned(p, h, FALSE) EXCEPT !.budgets[h] = @ - 1, !.log[h].uses = @ + 1]
        ELSE IF Len(p.hosts) >= p.maxPool /\ Len(p.hosts) = 0
        THEN [Returned(p, 0, FALSE) EXCEPT !.panic = TRUE]      \* p.hosts[0]: index out of range
        ELSE LET q == IF Len(p.hosts) >= p.maxPool THEN evict(p) ELSE [p EXCEPT !.evicted = 0]
                 h == createHost(q)
             IN  IF ~ok THEN [q EXCEPT !.ret = [h |-> 0, err |-> TRUE]]
                 ELSE [Logged(q, "gossip", budget, 1)
                          EXCEPT !.hosts = Append(@, h),
                                 !.budgets = [x \in DOMAIN q.budgets \cup {h} |->
                                                 IF x = h THEN budget - 1 ELSE q.budgets[x]],
                                 !.ret = [h |-> h, err |-> FALSE]]

\* GetFresh: a new host every time, not kept by the pool
GetFresh(p, ok) ==
    IF ~ok THEN Returned(p, 0, TRUE)
    ELSE Returned(Logged(p, "fresh", 0, 0), createHost(p), FALSE)

CloseAllKeepsBudgets(p) ==
    [Returned(p, 0, FALSE)
        EXCEPT !.closed = @ \cup ({p.streamHost} \ {0}) \cup Range(p.hosts),
               !.hosts = <<>>]

CloseAll(p) ==
    [Returned(p, 0, FALSE)
        EXCEPT !.closed = @ \cup ({p.streamHost} \ {0}) \cup Range(p.hosts),
               !.hosts = <<>>,
               !.budgets = <<>>]

\* the budgets the gossip attacks ask for
Budgets == 1 .. MaxBudget

\* a call of the pool by the attack the main loop runs
PoolStep(name, p, next) ==
    /\ op' = name
    /\ pool' = p
    /\ pc' = next
    /\ UNCHANGED <<proc, env, extra, deck, idx, stage>>
    /\ UNCHANGED <<nodeKeys, nonces, deployedContracts, pendingDeploys, active, race, evs,
                   lastPushed, ethVars, focConfig, bootVars, obsVars>>

Running == proc = "fuzzer" /\ pc = "run"

\* createHost can still be called in this run
CanCreate == Len(pool.log) < MaxHosts

StreamCall ==
    /\ Running
    /\ pool.streamHost = 0 => CanCreate
    /\ \E ok \in BOOLEAN :
          PoolStep("GetForStream",
                   [GetForStream(pool, ok) EXCEPT !.streamCalls = IF @ < 2 THEN @ + 1 ELSE @],
                   "run")

GossipCall ==
    /\ Running
    /\ CanCreate \/ \E i \in 1 .. Len(pool.hosts) : hasBudget(pool, pool.hosts[i])
    /\ \E budget \in Budgets, ok \in BOOLEAN :
          \E p \in {GetForGossip(pool, budget, ok)} :
             PoolStep("GetForGossip", p, IF p.panic THEN "panic" ELSE "run")

FreshCall ==
    /\ Running
    /\ CanCreate
    /\ \E ok \in BOOLEAN : PoolStep("GetFresh", GetFresh(pool, ok), "run")

\* defer pool.CloseAll(): main() returns
Shutdown ==
    /\ Running
    /\ PoolStep("CloseAll", CloseAll(pool), "exit")

\* poolSize := envInt("FUZZER_IDENTITY_POOL_SIZE", 20)
PoolSizes == {Unset, Bad} \cup {Num(k) : k \in 0 .. MaxPool}

InitPool ==
    /\ proc = "fuzzer"
    /\ env = [v \in EnvNames |-> Unset]
    /\ extra = 0
    /\ deck = buildDeckFuzzer(env, extra)
    /\ pc = "run"
    /\ idx = 0
    /\ stage = "built"
    /\ EngineIdle
    /\ \E v \in PoolSizes : pool = newIdentityPool(envInt(v, defaultPoolSize))

NextPool ==
    \/ StreamCall
    \/ GossipCall
    \/ FreshCall
    \/ Shutdown

SpecPool == InitPool /\ [][NextPool]_vars


(***************************************************************************)
(* The fuzzer's attacks that run code in parallel. exchStreamBurst and     *)
(* helloSpam50 start goroutines and wait for them with a WaitGroup;        *)
(* runExchangeServerAttack registers stream handlers that the host runs    *)
(* when the victim opens a stream, and waits for the served channel or a   *)
(* timer. race holds the sub-tasks that are running (pending), whether the *)
(* served channel holds its token, and the handlers that have run.         *)
(***************************************************************************)
\* for i := 0; i < 50; i++ { wg.Add(1); go func() {...}() }
burstSize == 50

\* the goroutines of a burst are alike: the model numbers those still running
burst(n) == {<<"burst", k>> : k \in 1 .. n}

Tasks(pending, served, handled) ==
    [pending |-> pending, served |-> served, handled |-> handled]

\* what an attack leaves running when the loop starts the next one
Leftover == IF "served" \in DOMAIN race THEN race.pending ELSE {}

FuzzIdle(names) ==
    /\ proc = "fuzzer"
    /\ active = "idle"
    /\ {deck[i].name : i \in 1 .. Len(deck)} \cap names # {}

TaskStep(name, act, rc, p) ==
    /\ op' = name
    /\ active' = act
    /\ race' = rc
    /\ pool' = p
    /\ UNCHANGED <<deckVars, nodeKeys, nonces, deployedContracts, pendingDeploys, evs,
                   lastPushed, ethVars, focConfig, bootVars, obsVars>>

\* the closure of getAllExchangeClientAttacks and getAllHelloAttacks:
\* h, err := pool.GetForStream(ctx); if err != nil { return }; a.fn(ctx, h, target)
BurstStart(name) ==
    /\ pool.streamHost = 0 => CanCreate
    /\ \E ok \in BOOLEAN :
          \E p \in {GetForStream(pool, ok)} :
             IF p.ret.err
             THEN TaskStep(name, "idle", Tasks(Leftover, FALSE, {}), p)
             ELSE TaskStep(name, name, Tasks(Leftover \cup burst(burstSize), FALSE, {}), p)

exchStreamBurst ==
    /\ FuzzIdle({"exch-stream-burst"})
    /\ BurstStart("exch-stream-burst")

helloSpam50 ==
    /\ FuzzIdle({"hello-spam-50"})
    /\ BurstStart("hello-spam-50")

Bursts == {"exch-stream-burst", "hello-spam-50"}

Bursting == {t \in race.pending : t[1] = "burst"}

\* one goroutine of the burst runs to its end: defer wg.Done()
BurstDone ==
    /\ active \in Bursts
    /\ Bursting # {}
    /\ TaskStep(active, active,
                [race EXCEPT !.pending = @ \ {<<"burst", Cardinality(Bursting)>>}], pool)

\* wg.Wait() returns when every goroutine has called Done
wgWait(pending) == {t \in pending : t[1] = "burst"} = {}

BurstJoin ==
    /\ active \in Bursts
    /\ wgWait(race.pending)
    /\ TaskStep(active, "idle", race, pool)

\* runExchangeServerAttack up to its select: a fresh host, the two handlers
\* registered, the connection and the trigger Hello
runExchangeServerAttack ==
    /\ FuzzIdle(Range(ExchangeServerNames))
    /\ \E fresh \in BOOLEAN, connected \in BOOLEAN :
          IF fresh /\ connected
          THEN TaskStep("runExchangeServerAttack", "runExchangeServerAttack",
                        Tasks(Leftover, FALSE, {}), pool)
          ELSE TaskStep("runExchangeServerAttack", "idle", Tasks(Leftover, FALSE, {}), pool)

\* the victim opens a stream on the attack's host: the host runs the handler
\* registered for the protocol, each at most once in the model
HandlerStart ==
    /\ active = "runExchangeServerAttack"
    /\ \E proto \in {"exchange", "hello"} \ race.handled :
          TaskStep(active, active,
                   [race EXCEPT !.pending = @ \cup {<<proto, 1>>},
                                !.handled = @ \cup {proto}], pool)

\* the ChainExchange handler has read the request and written the response:
\* select { case served <- struct{}{}: default: }; its deferred s.Close() is
\* still to run
HandlerServed ==
    /\ <<"exchange", 1>> \in race.pending
    /\ TaskStep(op, active,
                [race EXCEPT !.pending = (@ \ {<<"exchange", 1>>}) \cup {<<"exchange", 2>>},
                             !.served = TRUE], pool)

\* a handler returns
HandlerDone ==
    /\ \E t \in race.pending \cap {<<"exchange", 2>>, <<"hello", 1>>} :
          TaskStep(op, active, [race EXCEPT !.pending = @ \ {t}], pool)

\* select { case <-served: ... case <-time.After(15 * time.Second): ... },
\* then the deferred cancel() and h.Close()
ServerAttackReturn ==
    /\ active = "runExchangeServerAttack"
    /\ \E timeout \in BOOLEAN :
          /\ timeout \/ race.served
          /\ TaskStep(active, "idle", [race EXCEPT !.served = FALSE], pool)

\* the fuzzer in its main loop, and the stress engine running the
\* contention vectors
TaskRuns ==
    { [vectors |-> {"DoAdversarial"}, foc |-> FALSE, queued |-> 0,
       keys |-> KeystoreEntries],
      [vectors |-> {"DoDeployContracts", "DoConflictingContractCalls"}, foc |-> FALSE,
       queued |-> 0, keys |-> SubSeq(KeystoreEntries, 1, 1)] }

InitTasks ==
    \/ \E r \in TaskRuns : InitRun(r)
    \/ InitPool

NextTasks ==
    \/ doDoubleSpend
    \/ doNonceRace
    \/ DoDeployContracts
    \/ DoConflictingContractCalls
    \/ RacePush
    \/ RaceJoin
    \/ exchStreamBurst
    \/ helloSpam50
    \/ BurstDone
    \/ BurstJoin
    \/ runExchangeServerAttack
    \/ HandlerStart
    \/ HandlerServed
    \/ HandlerDone
    \/ ServerAttackReturn

SpecTasks == InitTasks /\ [][NextTasks]_vars


(***************************************************************************)
(* What the stress engine emits: the RPC calls of a vector, in the order   *)
(* the nodes receive them. A vector runs here in one step; evs holds its   *)
(* calls, each with the goroutine that made it (0 is the main goroutine)   *)
(* and the node it went to.                                                *)
(***************************************************************************)
Call(g, method, nonce, node) == [g |-> g, method |-> method, nonce |-> nonce, node |-> node]

\* the calls behind the events of pushMsg: a signing is local, a push is an RPC
RECURSIVE CallsOf(_, _)
CallsOf(es, g) ==
    IF es = <<>> THEN <<>>
    ELSE (IF Head(es).type = "push"
          THEN <<Call(g, "MpoolPush", Head(es).nonce, Head(es).node)>>
          ELSE <<>>) \o CallsOf(Tail(es), g)

\* a loop over the nodes that made Len(s) calls of one method
LoopCalls(method, s) == [i \in 1 .. Len(s) |-> Call(0, method, -1, nodeKeys[i])]

\* the orders in which the calls of two goroutines can reach the nodes
RECURSIVE Interleavings(_, _)
Interleavings(a, b) ==
    IF a = <<>> THEN {b}
    ELSE IF b = <<>> THEN {a}
    ELSE {<<Head(a)>> \o t : t \in Interleavings(Tail(a), b)}
         \cup {<<Head(b)>> \o t : t \in Interleavings(a, Tail(b))}

\* the orders in which the calls of the goroutines gs[1], gs[2], ... can reach the nodes
RECURSIVE InterleaveAll(_)
InterleaveAll(gs) ==
    IF gs = <<>> THEN {<<>>}
    ELSE UNION {Interleavings(Head(gs), t) : t \in InterleaveAll(Tail(gs))}

EmitStep(vec, ns, es) ==
    /\ op' = vec
    /\ nonces' = ns
    /\ evs' = es
    /\ UNCHANGED <<deckVars, nodeKeys, deployedContracts, pendingDeploys, active, race,
                   lastPushed, ethVars, focConfig, pool, bootVars, obsVars>>

\* DoTransferMarket from its wallet picks to the return of pushMsg
RunTransferMarket ==
    /\ Idle("DoTransferMarket")
    /\ \E from \in Loaded :
          \/ /\ \E to \in Loaded : from = to
             /\ EmitStep("DoTransferMarket", nonces, <<>>)
          \/ /\ \E to \in Loaded : from # to
             /\ Budget
             /\ \E node \in Nodes, o \in SignPush :
                  LET r == pushMsg(nonces, from, node, o[1], o[2])
                  IN  EmitStep("DoTransferMarket", r.nonces, CallsOf(r.evs, 0))

\* the two goroutines of doDoubleSpend: one MpoolPush each
pushers(from, nonce, nodeA, nodeB) ==
    << <<Call(1, "MpoolPush", nonce, nodeA)>>, <<Call(2, "MpoolPush", nonce, nodeB)>> >>

\* doDoubleSpend from its wallet picks to nonces[fromAddr]++
RunDoubleSpend ==
    /\ Idle("DoAdversarial")
    /\ IF Len(nodeKeys) < 2
       THEN EmitStep("doDoubleSpend", nonces, <<>>)
       ELSE \E from \in Loaded :
               \/ /\ \E toA \in Loaded, toB \in Loaded :
                        from = toA \/ from = toB \/ toA = toB
                  /\ EmitStep("doDoubleSpend", nonces, <<>>)
               \/ /\ \E toA \in Loaded, toB \in Loaded :
                        from # toA /\ from # toB /\ toA # toB
                  /\ Budget
                  /\ \E n \in TwoNodes, signA \in BOOLEAN, signB \in BOOLEAN :
                       IF raceStarts(signA, signB)
                       THEN \E es \in InterleaveAll(pushers(from, nonces[from], n[1], n[2])) :
                               EmitStep("doDoubleSpend",
                                        raceJoin([NoRace EXCEPT !.from = from], nonces), es)
                       ELSE EmitStep("doDoubleSpend", nonces, <<>>)

\* the goroutine doTipsetConsensus starts for node i: ChainGetFinalizedTipSet,
\* and ChainGetTipSetByHeight when that call did not fail
asker(i, finOk) ==
    <<Call(i, "ChainGetFinalizedTipSet", -1, nodeKeys[i])>>
    \o (IF finOk THEN <<Call(i, "ChainGetTipSetByHeight", -1, nodeKeys[i])>> ELSE <<>>)

\* doTipsetConsensus from DoChainMonitor's draw to wg.Wait()
RunTipsetConsensus ==
    /\ Idle("DoChainMonitor")
    /\ \E r \in 0 .. MaxRand :
          checkNames[rngIntn(r, Len(checkNames)) + 1] = "doTipsetConsensus"
    /\ IF Len(nodeKeys) < 2
       THEN EmitStep("doTipsetConsensus", nonces, <<>>)
       ELSE \E s \in AskInOrder(Len(nodeKeys), HeightAnswers,
                                {h \in HeightAnswers : h < f3MinEpoch}) :
               IF ~allNodesPastEpoch(s, f3MinEpoch)
               THEN EmitStep("doTipsetConsensus", nonces, LoopCalls("ChainHead", s))
               ELSE \E t \in AskInOrder(Len(nodeKeys), HeightAnswers, {-1}) :
                       IF getFinalizedHeight(t) < finalizedMinHeight
                       THEN EmitStep("doTipsetConsensus", nonces,
                                     LoopCalls("ChainHead", s)
                                     \o LoopCalls("ChainGetFinalizedTipSet", t))
                       ELSE \E finOk \in [1 .. Len(nodeKeys) -> BOOLEAN] :
                               \E es \in InterleaveAll([i \in 1 .. Len(nodeKeys) |->
                                                           asker(i, finOk[i])]) :
                                  EmitStep("doTipsetConsensus", nonces,
                                           LoopCalls("ChainHead", s)
                                           \o LoopCalls("ChainGetFinalizedTipSet", t)
                                           \o es)

\* one vector per run
TraceRuns ==
    { [vectors |-> {v}, foc |-> FALSE, queued |-> 0, keys |-> KeystoreEntries] :
         v \in {"DoTransferMarket", "DoAdversarial", "DoChainMonitor"} }

InitTrace == \E r \in TraceRuns : InitRun(r)

NextTrace ==
    \/ RunTransferMarket
    \/ RunDoubleSpend
    \/ RunTipsetConsensus

SpecTrace == InitTrace /\ [][NextTrace]_vars


(***************************************************************************)
(* foc_lifecycle.go: DoFocDeposit. The vector runs here in one step, from  *)
(* its guard to the assertion, its focTxWait sleep included; what the      *)
(* chain did with the transactions during the sleep is an input.           *)
(***************************************************************************)
\* the deposits of a run, in USDFC: rngIntn(10) + 1, cut to MaxAmount
Amounts == 1 .. MaxAmount

\* focConfig.ClientKey
ClientKey == "k1"

\* readAccountFunds: the funds field of accounts(token, owner), 0 when the
\* eth_call fails or answers fewer than 32 bytes
readAccountFunds(funds, ok) == IF ok THEN funds ELSE 0

\* sendEthTx as its caller sees it: the cache it leaves and what it returns.
\* n is the answer of MpoolGetNonce (-1: an error) when the sender is not cached.
sendEthTx(cache, key, n, signOk, sendOk) ==
    IF nonceSource(cache, key) = "node" /\ n = -1
    THEN [cache |-> cache, ok |-> FALSE]
    ELSE LET nonce    == IF nonceSource(cache, key) = "cache" THEN cache[key] ELSE n
             reserved == reserve(cache, key, nonce)
         IN  IF ~signOk THEN [cache |-> reserved, ok |-> FALSE]
             ELSE IF ~sendOk THEN [cache |-> invalidate(reserved, key), ok |-> FALSE]
             ELSE [cache |-> reserved, ok |-> TRUE]

\* what a sendEthTx call can meet: MpoolGetNonce's answer, the signing, the node's verdict
EthOutcomes == {-1, 0} \X BOOLEAN \X BOOLEAN

\* assert.Always(ok, name, details)
AlwaysWith(name, ok, details) == [name |-> name, ok |-> ok, anchor |-> "none", details |-> details]

\* the run can still deposit: the funds stay within MaxDeposits deposits and
\* the EVM nonces within the two transactions of each
CanDeposit ==
    /\ chain.funds + chain.pending < MaxDeposits * MaxAmount
    /\ ClientKey \in DOMAIN ethNonces => ethNonces[ClientKey] < 2 * MaxDeposits

\* the chain executes the deposits the mempool holds
executed(c) == [funds |-> c.funds + c.pending, pending |-> 0]

\* increased := fundsAfter - fundsBefore; deposited := increased.Cmp(amount) == 0
deposited(fundsBefore, fundsAfter, amount) == fundsAfter - fundsBefore = amount

DepositStep(cache, c, as) ==
    /\ op' = "DoFocDeposit"
    /\ ethNonces' = cache
    /\ chain' = c
    /\ asserts' = as
    /\ UNCHANGED <<deckVars, nodeKeys, nonces, deployedContracts, pendingDeploys, active, race,
                   evs, lastPushed, ethNoncesMu, eth, focConfig, pool, bootVars, receipts, rpc,
                   compute, reorg, sends, server, resp>>

DoFocDeposit ==
    /\ proc = "engine"
    /\ active = "idle"
    /\ focConfig
    /\ CanDeposit
    /\ \E amount \in Amounts, readBefore \in BOOLEAN, approve \in EthOutcomes :
          LET fundsBefore == readAccountFunds(chain.funds, readBefore)
              a == sendEthTx(ethNonces, ClientKey, approve[1], approve[2], approve[3])
          IN  IF ~a.ok THEN DepositStep(a.cache, chain, <<>>)
              ELSE \E deposit \in EthOutcomes :
                      LET d == sendEthTx(a.cache, ClientKey, deposit[1], deposit[2], deposit[3])
                      IN  IF ~d.ok THEN DepositStep(d.cache, chain, <<>>)
                          ELSE \E included \in BOOLEAN, readAfter \in BOOLEAN :
                                  LET sent == [chain EXCEPT !.pending = @ + amount]
                                      c == IF included THEN executed(sent) ELSE sent
                                      fundsAfter == readAccountFunds(c.funds, readAfter)
                                  IN  DepositStep(d.cache, c,
                                         <<AlwaysWith("USDFC deposit increases FilecoinPay account balance",
                                                      deposited(fundsBefore, fundsAfter, amount),
                                                      [amount |-> amount,
                                                       funds_before |-> fundsBefore,
                                                       funds_after |-> fundsAfter])>>)

\* between two vectors the chain executes what the mempool holds
ChainExecutes ==
    /\ proc = "engine"
    /\ active = "idle"
    /\ chain.pending > 0
    /\ op' = "chain"
    /\ chain' = executed(chain)
    /\ asserts' = <<>>
    /\ UNCHANGED <<deckVars, nodeKeys, nonces, deployedContracts, pendingDeploys, active, race,
                   evs, lastPushed, ethVars, focConfig, pool, bootVars, receipts, rpc, compute,
                   reorg, sends, server, resp>>

\* a run with the FOC environment loaded
DepositRuns ==
    { [vectors |-> {"DoTransferMarket"}, foc |-> TRUE, queued |-> 0, keys |-> KeystoreEntries] }

InitDeposit == \E r \in DepositRuns : InitRun(r)

NextDeposit ==
    \/ DoFocDeposit
    \/ ChainExecutes

SpecDeposit == InitDeposit /\ [][NextDeposit]_vars


(***************************************************************************)
(* DoHeavyCompute (part_004): the walk back from the head, one loop         *)
(* iteration per step.                                                     *)
(***************************************************************************)
computeMinHeight == 20

computeStartOffset == 2

computeEndOffset == 12

computeTargetEpochs == 5

\* ChainHead: below computeMinHeight, above it, or -1 for an RPC error
HeadAnswers == {-1, 19, 24}

\* the state roots a node reports
Roots == {"a", "b"}

\* a failed ChainGetTipSetByHeight or ChainGetTipSet
NoTipset == [height |-> -1, parentState |-> ""]

\* ChainGetTipSetByHeight(h, head.Key()): the tipset at h, or the one before
\* it when the epochs in between are null rounds
TipsetsAt(h) == {[height |-> h - k, parentState |-> r] : k \in 0 .. MaxSkip, r \in Roots}

\* ChainGetTipSet(checkTs.Parents()): a tipset at least one epoch lower
ParentsOf(ts) ==
    {[height |-> ts.height - k, parentState |-> r] : k \in 1 .. MaxSkip + 1, r \in Roots}

startHeight(head) == head - computeStartOffset

endHeight(head) == head - computeEndOffset

\* the loop without its count of epochs
loopRunsUncounted(c) == c.checkTs.height >= endHeight(c.head)

\* for epochsChecked < computeTargetEpochs && checkTs.Height() >= endHeight
loopRuns(c) ==
    c.epochsChecked < computeTargetEpochs /\ c.checkTs.height >= endHeight(c.head)

\* stateMatches := st.Root == checkTs.ParentState()
stateMatches(root, checkTs) == root = checkTs.parentState

\* one StateCompute and the comparison of its result
Recomputed(parentTs, checkTs, root) ==
    [exec_height |-> parentTs.height, check_height |-> checkTs.height,
     computed_root |-> root, expected_root |-> checkTs.parentState]

exercised(c) ==
    <<Sometimes("Heavy computation path exercised", c.epochsChecked > 0, "none")>>

ComputeStep(c, act, as) ==
    /\ op' = "DoHeavyCompute"
    /\ active' = act
    /\ compute' = c
    /\ asserts' = as
    /\ evs' = <<>>
    /\ receipts' = <<>>
    /\ rpc' = NoAnswers
    /\ UNCHANGED <<deckVars, nodeKeys, nonces, deployedContracts, pendingDeploys, race,
                   lastPushed, ethVars, focConfig, pool, bootVars, chain, reorg, sends, server,
                   resp>>

\* from pickNode to the first tipset of the walk
DoHeavyCompute ==
    /\ Idle("DoHeavyCompute")
    /\ \E node \in Nodes, head \in HeadAnswers :
          LET c == [NoCompute EXCEPT !.node = node, !.head = head]
          IN  IF head = -1
              THEN ComputeStep([c EXCEPT !.failed = TRUE], "idle", <<>>)
              ELSE IF head < computeMinHeight
              THEN ComputeStep(c, "idle", <<>>)
              ELSE \E ts \in TipsetsAt(startHeight(head)) \cup {NoTipset} :
                      IF ts = NoTipset
                      THEN ComputeStep([c EXCEPT !.failed = TRUE], "idle", <<>>)
                      ELSE ComputeStep([c EXCEPT !.checkTs = ts], "DoHeavyCompute", <<>>)

\* one evaluation of the loop condition and, when it holds, one iteration
ComputeEpoch ==
    /\ active = "DoHeavyCompute"
    /\ IF ~loopRuns(compute)
       THEN ComputeStep(compute, "idle", exercised(compute))
       ELSE \E parentTs \in ParentsOf(compute.checkTs) \cup {NoTipset} :
               IF parentTs = NoTipset
               THEN ComputeStep([compute EXCEPT !.failed = TRUE], "idle", <<>>)
               ELSE IF parentTs.height < endHeight(compute.head)
               THEN ComputeStep(compute, "idle", exercised(compute))
               ELSE \E st \in Roots \cup {"error"} :
               IF st = "error"
               THEN ComputeStep([compute EXCEPT !.failed = TRUE], "idle", <<>>)
               ELSE LET c == [compute EXCEPT
                                 !.computed = Append(@, Recomputed(parentTs, compute.checkTs, st))]
                        as == <<Always("Recomputed state root matches stored state",
                                       stateMatches(st, compute.checkTs), "none")>>
                    IN  IF ~stateMatches(st, compute.checkTs)
                        THEN ComputeStep(c, "idle", as)
                        ELSE ComputeStep([c EXCEPT !.checkTs = parentTs,
                                                   !.epochsChecked = @ + 1],
                                         "DoHeavyCompute", as)

ComputeRuns ==
    { [vectors |-> {"DoHeavyCompute"}, foc |-> FALSE, queued |-> 0, keys |-> KeystoreEntries] }

InitCompute == \E r \in ComputeRuns : InitRun(r)

NextCompute ==
    \/ DoHeavyCompute
    \/ ComputeEpoch

\* the vector runs in the main goroutine: a loop that can go on does go on
SpecCompute == InitCompute /\ [][NextCompute]_vars /\ WF_vars(ComputeEpoch)


(***************************************************************************)
(* reorg_vectors.go: the partition cycles of DoReorgChaos, one step per    *)
(* phase of a cycle, and waitForEpochsOnOther, one step per poll. The      *)
(* verification that follows the cycles is the rounds Peers, Finalized,    *)
(* StateRoots and HeightSpread.                                            *)
(***************************************************************************)
reorgMaxCyclesPerCall == 10

\* reorgFallbackBlock, in seconds
reorgFallbackBlock == 6

\* draws of the random source: the fewest cycles, the most, and a draw
\* beyond reorgMaxCyclesPerCall
CycleDraws == {0, reorgMaxCyclesPerCall - 1, 2 * reorgMaxCyclesPerCall + 1}

\* numCycles := rngIntn(reorgMaxCyclesPerCall) + 1
numCycles(r) == rngIntn(r, reorgMaxCyclesPerCall) + 1

\* the peers NetPeers can report for the victim: the other nodes of
\* nodeKeys and a peer outside them
PeerIds(victim) == (Nodes \ {victim}) \cup {"miner0"}

\* the height of the watched node's head when the wait starts
StartHeight == 10

\* the reconnection leaves out the known node addresses
healTargetsSaved(rg) == rg.savedPeers

\* NetConnect is called on every saved peer, then on every known address
healTargets(rg) == rg.savedPeers \cup rg.knownPeers

\* the first node of nodeKeys, whoever it is
watchNameFirst(keys, excludeNode) == IF keys = <<>> THEN "" ELSE Head(keys)

\* the first node of nodeKeys that is not excludeNode, "" when there is none
RECURSIVE watchName(_, _)
watchName(keys, excludeNode) ==
    IF keys = <<>> THEN ""
    ELSE IF Head(keys) # excludeNode THEN Head(keys)
    ELSE watchName(Tail(keys), excludeNode)

\* time.Sleep(time.Duration(n) * reorgFallbackBlock), in seconds
fallbackSleep(n) == n * reorgFallbackBlock

\* waitForEpochsOnOther up to its polling loop: startOk is whether the first
\* ChainHead succeeded
waitBegin(keys, excludeNode, n, startOk) ==
    LET watch == watchName(keys, excludeNode)
    IN  IF watch = ""
        THEN [NoWait EXCEPT !.n = n, !.slept = fallbackSleep(n)]
        ELSE IF ~startOk
        THEN [NoWait EXCEPT !.watch = watch, !.n = n, !.head = -1, !.slept = fallbackSleep(n)]
        ELSE [NoWait EXCEPT !.watch = watch, !.n = n, !.head = StartHeight,
                            !.target = StartHeight + n]

ReorgStep(rg, act, rc, as) ==
    /\ op' = "DoReorgChaos"
    /\ active' = act
    /\ reorg' = rg
    /\ race' = rc
    /\ asserts' = as
    /\ evs' = <<>>
    /\ receipts' = <<>>
    /\ rpc' = NoAnswers
    /\ UNCHANGED <<deckVars, nodeKeys, nonces, deployedContracts, pendingDeploys,
                   lastPushed, ethVars, focConfig, pool, bootVars, chain, compute, sends, server,
                   resp>>

InCycles(phase) == active = "DoReorgChaos" /\ reorg.phase = phase

\* from the node-count guard to collectNodeAddrInfos: the addresses of the
\* nodes whose NetAddrsListen succeeded
ReorgChaosStart ==
    /\ Idle("DoReorgChaos")
    /\ IF Len(nodeKeys) < 2
       THEN ReorgStep(NoReorg, "idle", NoRace, <<>>)
       ELSE \E victim \in Nodes, r \in CycleDraws :
               \E known \in SUBSET (Nodes \ {victim}) :
                  ReorgStep([NoReorg EXCEPT !.victim = victim, !.numCycles = numCycles(r),
                                            !.knownPeers = known, !.phase = "cycle"],
                            "DoReorgChaos", NoRace, <<>>)

\* the head of the loop to the start of the wait: NetPeers fails (break),
\* reports nobody (reconnect and continue), or NetDisconnect is called on
\* every peer it reported; how many of these calls succeed changes nothing
\* but the details of the assertion
ReorgCycle ==
    /\ InCycles("cycle")
    /\ reorg.cycle < reorg.numCycles
    /\ \E err \in BOOLEAN :
          IF err
          THEN ReorgStep([reorg EXCEPT !.phase = "end"], active, NoRace, <<>>)
          ELSE \E peers \in SUBSET PeerIds(reorg.victim) :
                  IF peers = {}
                  THEN ReorgStep([reorg EXCEPT !.cycle = @ + 1, !.savedPeers = {},
                                               !.connectTried = reorg.knownPeers],
                                 active, NoRace, <<>>)
                  ELSE \E isolated \in BOOLEAN, r \in 0 .. 2, startOk \in BOOLEAN :
                          LET w == waitBegin(nodeKeys, reorg.victim, rngIntn(r, 3) + 1, startOk)
                          IN  ReorgStep([reorg EXCEPT !.savedPeers = peers,
                                                      !.connectTried = {},
                                                      !.wait = w,
                                                      !.phase = IF w.slept # 0 THEN "heal"
                                                                ELSE "wait"],
                                        active, NoRace,
                                        <<Sometimes("reorg_node_isolated", isolated, "none")>>)

\* what the watched node's ChainHead answers to a poll: an error, a height
\* short of the target, the target
PollAnswers(w) == {-1, w.target - 1, w.target}

\* one pass of the polling loop: the deadline is looked at first
waitForEpochsOnOther ==
    /\ InCycles("wait")
    /\ IF reorg.wait.fired
       THEN ReorgStep([reorg EXCEPT !.phase = "heal"], active, NoRace, <<>>)
       ELSE \E h \in PollAnswers(reorg.wait) :
               ReorgStep([reorg EXCEPT !.wait.head = h,
                                       !.phase = IF h # -1 /\ h >= reorg.wait.target
                                                 THEN "heal" ELSE "wait"],
                         active, NoRace, <<>>)

\* time.After(reorgEpochTimeout) delivers
DeadlineFires ==
    /\ InCycles("wait")
    /\ ~reorg.wait.fired
    /\ ReorgStep([reorg EXCEPT !.wait.fired = TRUE], active, NoRace, <<>>)

\* the reconnection and the end of the cycle
ReorgHeal ==
    /\ InCycles("heal")
    /\ ReorgStep([reorg EXCEPT !.connectTried = healTargets(reorg),
                               !.wait = NoWait,
                               !.successfulCycles = @ + 1,
                               !.cycle = @ + 1,
                               !.phase = "cycle"],
                 active, NoRace, <<>>)

\* after the loop: return when no cycle succeeded, else the convergence
\* wait and verifyPostReorgState
ReorgCyclesEnd ==
    /\ \/ InCycles("end")
       \/ InCycles("cycle") /\ reorg.cycle >= reorg.numCycles
    /\ IF ~reorgVerifies(reorg.successfulCycles)
       THEN ReorgStep(NoReorg, "idle", NoRace, <<>>)
       ELSE ReorgStep([NoReorg EXCEPT !.phase = "verify"], active, Goto("peers"),
                      <<Sometimes("reorg_chaos_executed", reorg.successfulCycles > 0, "none")>>)

ReorgRuns ==
    { [vectors |-> {"DoReorgChaos"}, foc |-> FALSE, queued |-> 0, keys |-> KeystoreEntries] }

InitReorg == \E r \in ReorgRuns : InitRun(r)

NextReorg ==
    \/ ReorgChaosStart
    \/ ReorgCycle
    \/ waitForEpochsOnOther
    \/ DeadlineFires
    \/ ReorgHeal
    \/ ReorgCyclesEnd
    \/ Peers
    \/ Finalized
    \/ StateRoots
    \/ HeightSpread

\* the vector runs in the main goroutine, and the runtime's timer delivers
SpecReorg ==
    /\ InitReorg
    /\ [][NextReorg]_vars
    /\ WF_vars(waitForEpochsOnOther)
    /\ WF_vars(DeadlineFires)


(***************************************************************************)
(* foc_helpers.go: sendEthTx called for one sender from several goroutines *)
(* at once. ethNoncesMu makes each critical section one step; the node     *)
(* reports as the sender's next nonce the lowest one its mempool lacks.    *)
(***************************************************************************)
Callers == 1 .. MaxCalls

\* MpoolGetNonce on a node whose mempool holds the nonces in held
RECURSIVE nextNonce(_, _)
nextNonce(held, n) == IF n \in held THEN nextNonce(held, n + 1) ELSE n

MpoolGetNonce(held) == nextNonce(held, 0)

SendStep(s, cache) ==
    /\ op' = "sendEthTx"
    /\ sends' = s
    /\ ethNonces' = cache
    /\ evs' = <<>>
    /\ asserts' = <<>>
    /\ receipts' = <<>>
    /\ rpc' = NoAnswers
    /\ UNCHANGED <<deckVars, nodeKeys, nonces, deployedContracts, pendingDeploys, active,
                   race, lastPushed, ethNoncesMu, eth, focConfig, pool, bootVars, chain,
                   compute, reorg, server, resp>>

At(g, pos) == proc = "engine" /\ focConfig /\ sends.call[g].pos = pos

\* the calls between their critical section and their return
InFlight == {g \in Callers : sends.call[g].pos \in {"reserved", "signed"}}

\* the critical section: the cached nonce or the node's, and the cache set
\* one past it; MpoolGetNonce may fail
SendReserve ==
    \E g \in Callers :
        /\ At(g, "idle")
        /\ ~ethNoncesMu
        /\ \E rpcOk \in BOOLEAN :
              LET src   == nonceSource(ethNonces, ClientKey)
                  nonce == IF src = "cache" THEN ethNonces[ClientKey]
                           ELSE MpoolGetNonce(sends.mempool)
              IN  IF src = "node" /\ ~rpcOk
                  THEN SendStep([sends EXCEPT !.call[g].pos = "done"], ethNonces)
                  ELSE SendStep([sends EXCEPT !.call[g].pos = "reserved",
                                              !.call[g].nonce = nonce,
                                              !.call[g].during = InFlight],
                                reserve(ethNonces, ClientKey, nonce))

\* the transaction is built and signed with the nonce taken; a failure
\* returns false and leaves the cache alone
SendSign ==
    \E g \in Callers :
        /\ At(g, "reserved")
        /\ \E ok \in BOOLEAN :
              SendStep([sends EXCEPT !.call[g].pos = IF ok THEN "signed" ELSE "done",
                                     !.call[g].signed = ok],
                       IF ok THEN ethNonces ELSE signFailed(ethNonces, ClientKey))

\* EthSendRawTransaction: the node takes the transaction, or the call fails
\* and the sender's cache entry is deleted under the lock
SendRaw ==
    \E g \in Callers :
        /\ At(g, "signed")
        /\ ~ethNoncesMu
        /\ \E ok \in BOOLEAN :
              IF ok
              THEN SendStep([sends EXCEPT !.call[g].pos = "done",
                                          !.call[g].raw = "ok",
                                          !.mempool = @ \cup {sends.call[g].nonce}],
                            ethNonces)
              ELSE SendStep([sends EXCEPT !.call[g].pos = "done",
                                          !.call[g].raw = "failed"],
                            invalidate(ethNonces, ClientKey))

InitSends == \E r \in DepositRuns : InitRun(r)

NextSends ==
    \/ SendReserve
    \/ SendSign
    \/ SendRaw

SpecSends == InitSends /\ [][NextSends]_vars

\* the same calls made one after the other by a single goroutine: a call
\* starts when the one before it has returned
CallReturned(g) == sends.call[g].pos = "done"

InTurn == \A g \in Callers :
             sends'.call[g] # sends.call[g] => \A h \in 1 .. g - 1 : CallReturned(h)

SerialReserve ==
    /\ SendReserve
    /\ InTurn

SerialSign ==
    /\ SendSign
    /\ InTurn

SerialRaw ==
    /\ SendRaw
    /\ InTurn

NextSerial ==
    \/ SerialReserve
    \/ SerialSign
    \/ SerialRaw

SpecSerial == InitSends /\ [][NextSerial]_vars


(***************************************************************************)
(* runExchangeServerAttack, statement by statement. The attack runs on the *)
(* fuzzer's main goroutine; the handlers it registers run on goroutines of *)
(* the host whenever the victim opens a stream, and go on running after    *)
(* the attack has returned.                                                *)
(***************************************************************************)
\* the statements of runExchangeServerAttack after pool.GetFresh, in order
serverBodyConnectFirst ==
    <<"SetExchangeHandler", "Connect", "SetHelloHandler", "sendTriggerHello", "select">>

serverBody ==
    <<"SetExchangeHandler", "SetHelloHandler", "Connect", "sendTriggerHello", "select">>

ServerAt(stmt) ==
    /\ proc = "fuzzer"
    /\ server.pc \in 1 .. Len(serverBody)
    /\ serverBody[server.pc] = stmt

ServerStep(name, sv, p) ==
    /\ op' = name
    /\ server' = sv
    /\ pool' = p
    /\ UNCHANGED <<deckVars, nodeKeys, nonces, deployedContracts, pendingDeploys, active,
                   race, evs, lastPushed, ethVars, focConfig, bootVars, receipts, asserts,
                   rpc, chain, compute, reorg, sends, resp>>

\* the function returns: the deferred cancel() and h.Close() run
serverReturn(sv, how) ==
    [sv EXCEPT !.pc = 0, !.how = how,
               !.closed = IF sv.h = 0 THEN @ ELSE @ \cup {sv.h}]

\* h, err := pool.GetFresh(ctx); if err != nil { return }; defer h.Close();
\* served := make(chan struct{}, 1)
ServerGetFresh ==
    /\ proc = "fuzzer"
    /\ server.pc = 0
    /\ {deck[i].name : i \in 1 .. Len(deck)} \cap Range(ExchangeServerNames) # {}
    /\ Len(pool.log) < MaxAttacks
    /\ \E ok \in BOOLEAN :
          \E p \in {GetFresh(pool, ok)} :
             LET sv == [server EXCEPT !.h = p.ret.h, !.handlers = <<>>, !.atConnect = <<>>,
                                      !.atHello = <<>>, !.fired = FALSE, !.got = 0,
                                      !.how = "none"]
             IN  IF p.ret.err
                 THEN ServerStep("runExchangeServerAttack", serverReturn(sv, "create failed"), p)
                 ELSE ServerStep("runExchangeServerAttack", [sv EXCEPT !.pc = 1], p)

\* h.SetStreamHandler(exchangeProtocol, ...)
SetExchangeHandler ==
    /\ ServerAt("SetExchangeHandler")
    /\ ServerStep("runExchangeServerAttack",
                  [server EXCEPT !.pc = @ + 1, !.handlers = Append(@, "exchange")], pool)

\* h.SetStreamHandler(helloProtocol, ...)
SetHelloHandler ==
    /\ ServerAt("SetHelloHandler")
    /\ ServerStep("runExchangeServerAttack",
                  [server EXCEPT !.pc = @ + 1, !.handlers = Append(@, "hello")], pool)

\* h.Connect(connectCtx, target.AddrInfo) under a 10 s context: on an error
\* the function returns
Connect ==
    /\ ServerAt("Connect")
    /\ \E ok \in BOOLEAN :
          LET sv == [server EXCEPT !.atConnect = server.handlers]
          IN  IF ok
              THEN ServerStep("runExchangeServerAttack", [sv EXCEPT !.pc = @ + 1], pool)
              ELSE ServerStep("runExchangeServerAttack", serverReturn(sv, "connect failed"),
                              pool)

\* sendTriggerHello: the stream is opened under a 10 s context and the Hello
\* is written, or opening fails; the attack goes on to its select either way
sendTriggerHello ==
    /\ ServerAt("sendTriggerHello")
    /\ \E opened \in BOOLEAN :
          ServerStep("sendTriggerHello",
                     [server EXCEPT !.pc = @ + 1,
                                    !.atHello = IF opened THEN server.handlers ELSE @],
                     pool)

\* time.After(15 * time.Second) delivers
TimeAfter ==
    /\ ServerAt("select")
    /\ ~server.fired
    /\ ServerStep("runExchangeServerAttack", [server EXCEPT !.fired = TRUE], pool)

\* select { case <-served: ... case <-time.After(15 * time.Second): ... }
ServerSelect ==
    /\ ServerAt("select")
    /\ \/ /\ server.h \in server.full
          /\ ServerStep("runExchangeServerAttack",
                        serverReturn([server EXCEPT !.full = @ \ {server.h}, !.got = @ + 1,
                                                    !.taken = @ \cup {server.h}],
                                     "served"),
                        pool)
       \/ /\ server.fired
          /\ ServerStep("runExchangeServerAttack", serverReturn(server, "timeout"), pool)

\* the victim opens a ChainExchange stream to the attack's host: the host
\* has the handler, the connection stands and the host is open. The victim
\* ends its request (eof) or keeps its side of the stream open
StreamOpen ==
    /\ proc = "fuzzer"
    /\ server.h # 0
    /\ server.h \notin server.closed
    /\ "exchange" \in Range(server.handlers)
    /\ server.atConnect # <<>>
    /\ \E k \in 1 .. MaxInvocations, eof \in BOOLEAN :
          /\ server.inv[k].pos = "none"
          /\ \A j \in 1 .. k - 1 : server.inv[j].pos # "none"
          /\ ServerStep("exchangeHandler",
                        [server EXCEPT !.inv[k] = [pos |-> "read", h |-> server.h,
                                                    eof |-> eof, sent |-> FALSE]],
                        pool)

\* io.Copy(io.Discard, io.LimitReader(s, 64*1024)) returns at the end of the
\* request, or with an error once the host is closed; then
\* resp := mut.builder(); s.Write(resp)
HandlerRespond ==
    /\ proc = "fuzzer"
    /\ \E k \in 1 .. MaxInvocations :
          /\ server.inv[k].pos = "read"
          /\ server.inv[k].eof \/ server.inv[k].h \in server.closed
          /\ ServerStep("exchangeHandler", [server EXCEPT !.inv[k].pos = "signal"], pool)

\* a send on the served channel that waits for room
signalBlocking(full, h) ==
    [done |-> h \notin full, sent |-> h \notin full, full |-> full \cup {h}]

\* select { case served <- struct{}{}: default: } on a channel of capacity 1
signal(full, h) ==
    [done |-> TRUE, sent |-> h \notin full, full |-> full \cup {h}]

\* the handler signals and returns through its deferred s.Close()
HandlerSignal ==
    /\ proc = "fuzzer"
    /\ \E k \in 1 .. MaxInvocations :
          /\ server.inv[k].pos = "signal"
          /\ \E r \in {signal(server.full, server.inv[k].h)} :
                /\ r.done
                /\ ServerStep("exchangeHandler",
                              [server EXCEPT !.inv[k].pos = "done",
                                             !.inv[k].sent = r.sent,
                                             !.full = r.full],
                              pool)

\* the fuzzer with the default pool size: the server attacks take their hosts
\* from GetFresh, which the pool does not keep
InitServer == InitPool /\ pool.maxPool = defaultPoolSize

NextServer ==
    \/ ServerGetFresh
    \/ SetExchangeHandler
    \/ SetHelloHandler
    \/ Connect
    \/ sendTriggerHello
    \/ TimeAfter
    \/ ServerSelect
    \/ StreamOpen
    \/ HandlerRespond
    \/ HandlerSignal

\* the main goroutine and the handlers' goroutines run, and the timer fires
SpecServer ==
    /\ InitServer
    /\ [][NextServer]_vars
    /\ WF_vars(SetExchangeHandler) /\ WF_vars(SetHelloHandler) /\ WF_vars(Connect)
    /\ WF_vars(sendTriggerHello) /\ WF_vars(TimeAfter) /\ WF_vars(ServerSelect)
    /\ WF_vars(HandlerRespond) /\ WF_vars(HandlerSignal)


(***************************************************************************)
(* cbor_helpers.go and the multi-block response builders. A CBOR item is   *)
(* kept as its major type and its content; an array holds its items in     *)
(* order. The random source is the values randomCID and randomBytes        *)
(* return, call by call.                                                   *)
(***************************************************************************)
cborArray(elements) == [major |-> 4, val |-> elements]
cborUint64(v) == [major |-> 0, val |-> <<v>>]
cborInt64(v) == IF v >= 0 THEN [major |-> 0, val |-> <<v>>] ELSE [major |-> 1, val |-> <<-v - 1>>]
cborBytes(b) == [major |-> 2, val |-> b]
cborNil == [major |-> 7, val |-> <<22>>]
\* tag 42 over the CID's bytes with the identity multibase prefix
cborCID(c) == [major |-> 6, val |-> <<42, 0, c>>]
cborCIDArray(cids) == cborArray([i \in 1 .. Len(cids) |-> cborCID(cids[i])])
\* a sign byte and the magnitude
bigIntBytes(v) == <<0, v>>

\* the CIDs randomCID can return, and what randomBytes can return
Cids == 1 .. MaxDraw
RandomBytes == {<<0>>, <<255>>}

\* the random values one call of buildBlockHeaderCBOR draws, in order:
\* randomCID() for dummyCID, randomBytes(32) for the ticket and the
\* election proof, randomBytes(8) for the block signature
HeaderDraws == [cid : Cids, ticket : RandomBytes, proof : RandomBytes, sig : RandomBytes]

\* newSharedBlockCIDs: four calls of randomCID
SharedDraws == [parentCID : Cids, stateRoot : Cids, msgReceipts : Cids, messagesCID : Cids]

NoShared == [parentCID |-> 0, stateRoot |-> 0, msgReceipts |-> 0, messagesCID |-> 0]

\* blockHeaderOpts{}: the zero value
blockHeaderOpts ==
    [nilTicket |-> FALSE, nilElectionProof |-> FALSE, nilBLSAggregate |-> FALSE,
     nilBlockSig |-> FALSE, nilBeaconEntries |-> FALSE, nilParents |-> FALSE,
     emptyParents |-> FALSE, allNil |-> FALSE, overrideCIDs |-> NoShared,
     overrideMiner |-> <<>>]

f01000 == <<0, 232, 7>>
f01001 == <<0, 233, 7>>

\* buildBlockHeaderCBOR without the shared CIDs: every CID is the block's own
buildBlockHeaderCBOROwnCIDs(opts, d) ==
    LET dummyCID == d.cid
        miner == IF opts.overrideMiner # <<>> THEN cborBytes(opts.overrideMiner)
                 ELSE cborBytes(f01000)
        ticket == IF opts.nilTicket \/ opts.allNil THEN cborNil
                  ELSE cborArray(<<cborBytes(d.ticket)>>)
        electionProof == IF opts.nilElectionProof \/ opts.allNil THEN cborNil
                         ELSE cborArray(<<cborInt64(1), cborBytes(d.proof)>>)
        beaconEntries == IF opts.nilBeaconEntries \/ opts.allNil THEN cborNil
                         ELSE cborArray(<<>>)
        parents == IF opts.nilParents \/ opts.allNil THEN cborNil
                   ELSE IF opts.emptyParents THEN cborArray(<<>>)
                   ELSE cborCIDArray(<<dummyCID>>)
        blsAggregate == IF opts.nilBLSAggregate \/ opts.allNil THEN cborNil
                        ELSE cborArray(<<cborUint64(2), cborBytes(<<>>)>>)
        blockSig == IF opts.nilBlockSig \/ opts.allNil THEN cborNil
                    ELSE cborArray(<<cborUint64(2), cborBytes(d.sig)>>)
    IN  cborArray(<<miner, ticket, electionProof, beaconEntries, cborArray(<<>>),
                    parents, cborBytes(bigIntBytes(1)), cborUint64(1), cborCID(dummyCID),
                    cborCID(dummyCID), cborCID(dummyCID), blsAggregate,
                    cborUint64(1700000000), blockSig, cborUint64(0),
                    cborBytes(bigIntBytes(100))>>)

\* buildBlockHeaderCBOR: the 16 fields of a BlockHeader, in order
buildBlockHeaderCBOR(opts, d) ==
    LET shared   == opts.overrideCIDs # NoShared
        dummyCID == IF shared THEN opts.overrideCIDs.parentCID ELSE d.cid
        miner == IF opts.overrideMiner # <<>> THEN cborBytes(opts.overrideMiner)
                 ELSE cborBytes(f01000)
        ticket == IF opts.nilTicket \/ opts.allNil THEN cborNil
                  ELSE cborArray(<<cborBytes(d.ticket)>>)
        electionProof == IF opts.nilElectionProof \/ opts.allNil THEN cborNil
                         ELSE cborArray(<<cborInt64(1), cborBytes(d.proof)>>)
        beaconEntries == IF opts.nilBeaconEntries \/ opts.allNil THEN cborNil
                         ELSE cborArray(<<>>)
        winPoStProof == cborArray(<<>>)
        parents == IF opts.nilParents \/ opts.allNil THEN cborNil
                   ELSE IF opts.emptyParents THEN cborArray(<<>>)
                   ELSE cborCIDArray(<<dummyCID>>)
        parentWeight == cborBytes(bigIntBytes(1))
        height == cborUint64(1)
        parentStateRoot ==
            cborCID(IF shared THEN opts.overrideCIDs.stateRoot ELSE dummyCID)
        parentMsgReceipts ==
            cborCID(IF shared THEN opts.overrideCIDs.msgReceipts ELSE dummyCID)
        messages == cborCID(IF shared THEN opts.overrideCIDs.messagesCID ELSE dummyCID)
        blsAggregate == IF opts.nilBLSAggregate \/ opts.allNil THEN cborNil
                        ELSE cborArray(<<cborUint64(2), cborBytes(<<>>)>>)
        timestamp == cborUint64(1700000000)
        blockSig == IF opts.nilBlockSig \/ opts.allNil THEN cborNil
                    ELSE cborArray(<<cborUint64(2), cborBytes(d.sig)>>)
        forkSignaling == cborUint64(0)
        parentBaseFee == cborBytes(bigIntBytes(100))
    IN  cborArray(<<miner, ticket, electionProof, beaconEntries, winPoStProof,
                    parents, parentWeight, height, parentStateRoot, parentMsgReceipts,
                    messages, blsAggregate, timestamp, blockSig, forkSignaling,
                    parentBaseFee>>)

\* CompactedMessages of a tipset of two blocks: no message, one include list
\* per block
buildMultiBlockMsgsCBOR ==
    cborArray(<<cborArray(<<>>), cborArray(<<cborArray(<<>>), cborArray(<<>>)>>),
                cborArray(<<>>), cborArray(<<cborArray(<<>>), cborArray(<<>>)>>)>>)

buildBSTipSetCBOR(blocks, messages) == cborArray(<<cborArray(blocks), messages>>)

\* a builder has run: the tipset it put into its response
Built(id, ts) ==
    /\ op' = id
    /\ resp' = [id |-> id, ts |-> ts]
    /\ UNCHANGED <<deckVars, nodeKeys, nonces, deployedContracts, pendingDeploys, active,
                   race, evs, lastPushed, ethVars, focConfig, pool, bootVars, receipts,
                   asserts, rpc, chain, compute, reorg, sends, server>>

Building == proc = "fuzzer" /\ resp = NoResp

\* R22: block A with a ticket, block B without
respNilTicketMultiBlock ==
    /\ Building
    /\ \E shared \in SharedDraws, dA \in HeaderDraws, dB \in HeaderDraws :
          LET blkA == buildBlockHeaderCBOR([blockHeaderOpts EXCEPT
                         !.overrideCIDs = shared, !.overrideMiner = f01000], dA)
              blkB == buildBlockHeaderCBOR([blockHeaderOpts EXCEPT
                         !.nilTicket = TRUE, !.overrideCIDs = shared,
                         !.overrideMiner = f01001], dB)
          IN  Built("R22-nil-ticket-multiblock",
                    buildBSTipSetCBOR(<<blkA, blkB>>, buildMultiBlockMsgsCBOR))

\* R23: both blocks without a ticket
respBothNilTickets ==
    /\ Building
    /\ \E shared \in SharedDraws, dA \in HeaderDraws, dB \in HeaderDraws :
          LET blkA == buildBlockHeaderCBOR([blockHeaderOpts EXCEPT
                         !.nilTicket = TRUE, !.overrideCIDs = shared,
                         !.overrideMiner = f01000], dA)
              blkB == buildBlockHeaderCBOR([blockHeaderOpts EXCEPT
                         !.nilTicket = TRUE, !.overrideCIDs = shared,
                         !.overrideMiner = f01001], dB)
          IN  Built("R23-both-nil-tickets",
                    buildBSTipSetCBOR(<<blkA, blkB>>, buildMultiBlockMsgsCBOR))

\* R24: block B without an election proof
respNilElectionProofMultiBlock ==
    /\ Building
    /\ \E shared \in SharedDraws, dA \in HeaderDraws, dB \in HeaderDraws :
          LET blkA == buildBlockHeaderCBOR([blockHeaderOpts EXCEPT
                         !.overrideCIDs = shared, !.overrideMiner = f01000], dA)
              blkB == buildBlockHeaderCBOR([blockHeaderOpts EXCEPT
                         !.nilElectionProof = TRUE, !.overrideCIDs = shared,
                         !.overrideMiner = f01001], dB)
          IN  Built("R24-nil-electionproof-multiblock",
                    buildBSTipSetCBOR(<<blkA, blkB>>, buildMultiBlockMsgsCBOR))

InitBuild == InitServer

NextBuild ==
    \/ respNilTicketMultiBlock
    \/ respBothNilTickets
    \/ respNilElectionProofMultiBlock

SpecBuild == InitBuild /\ [][NextBuild]_vars


(***************************************************************************)
(* The IdentityPool as an object: its four methods called in any order,    *)
(* CloseAll included, by a caller that goes on using the pool.             *)
(***************************************************************************)
\* p.CloseAll() by a caller that keeps the pool
CloseAllCall ==
    /\ Running
    /\ PoolStep("CloseAll", CloseAll(pool), "run")

\* a pool of the default size and a pool of one host
InitCalls == InitPool /\ pool.maxPool \in {1, defaultPoolSize}

NextCalls ==
    \/ StreamCall
    \/ GossipCall
    \/ FreshCall
    \/ CloseAllCall

SpecCalls == InitCalls /\ [][NextCalls]_vars


(***************************************************************************)
(* The nonce pipeline of the stress engine.                                *)
(***************************************************************************)
\* the positions of the native mempool pushes among the events of a step
NativePushes(es) == {i \in 1 .. Len(es) : es[i].type = "push" /\ es[i].kind # "evm"}

\* the positions of the successful native signings among the events of a step
NativeSigns(es) ==
    {i \in 1 .. Len(es) : es[i].type = "sign" /\ es[i].kind = "native" /\ es[i].ok}

\* the submission for the same sender that came before push i of the step:
\* an earlier push of the same step, or the last one of the steps before
PrevPush(es, i, lp) ==
    LET before == {j \in NativePushes(es) : j < i /\ es[j].from = es[i].from}
    IN  IF before = {} THEN lp[es[i].from]
        ELSE LET j == CHOOSE k \in before : \A m \in before : m <= k
             IN  [nonce |-> es[j].nonce, free |-> ~es[j].ok \/ es[j].kind = "garbage"]

\* push i of the step is the second message of a same-nonce vector: Tx_B of
\* the gas war, or the second of the two concurrent pushes of a contention
SecondOfPair(es, i) ==
    \/ op' = "DoGasWar" /\ \E j \in NativePushes(es) : j < i
    \/ active \in RaceVectors /\ Cardinality(race.pending) = 1

\* C1 as stated: every nonce submitted for a wallet is exactly one more than
\* the nonce of the previous submission for that wallet, except that a nonce
\* a failure left unconsumed is submitted again.
C1_StrictlyIncreasing ==
    [][\A i \in NativePushes(evs') :
          LET prev == PrevPush(evs', i, lastPushed)
          IN  \/ prev.nonce = -1
              \/ evs'[i].nonce = prev.nonce + 1
              \/ prev.free /\ evs'[i].nonce = prev.nonce]_vars

\* C1 amended: the nonces submitted for a wallet never decrease and never
\* skip; each is one more than the previous submission's, or repeats it, and
\* it repeats it only when the previous submission left the nonce unconsumed
\* or when the message is the second one of a same-nonce vector.
C1_NonceStep ==
    [][\A i \in NativePushes(evs') :
          LET prev == PrevPush(evs', i, lastPushed)
          IN  \/ prev.nonce = -1
              \/ evs'[i].nonce = prev.nonce + 1
              \/ /\ evs'[i].nonce = prev.nonce
                 /\ prev.free \/ SecondOfPair(evs', i)]_vars

\* both pushes of a contention went out with one nonce, after an earlier
\* submission of the same wallet
C1_Witness ==
    /\ active \in RaceVectors
    /\ race.pending = {}
    /\ race.errs = {}
    /\ race.nonce > 0
    /\ lastPushed[race.from] = [nonce |-> race.nonce, free |-> FALSE]

\* C2: pushMsg stamps the message with the sender's counter and advances the
\* counter by one exactly when the push succeeds; on a failed signing or a
\* rejected push no counter changes.
C2_PushMsg ==
    [][(op' = "DoTransferMarket" /\ evs' # <<>>) =>
          LET from == evs'[1].from
              ok   == Len(evs') = 2 /\ evs'[2].type = "push" /\ evs'[2].ok
          IN  /\ evs'[1].type = "sign"
              /\ \A i \in 1 .. Len(evs') : evs'[i].nonce = nonces[from] /\ evs'[i].from = from
              /\ nonces'[from] = IF ok THEN nonces[from] + 1 ELSE nonces[from]
              /\ \A w \in Wallets \ {from} : nonces'[w] = nonces[w]]_vars

\* pushMsg signed, the node rejected the push, the counter stands where it was
C2_Witness ==
    /\ op = "DoTransferMarket"
    /\ Len(evs) = 2
    /\ evs[1].ok /\ ~evs[2].ok
    /\ nonces[evs[1].from] = evs[2].nonce

\* C3: a same-nonce contention vector changes no counter while its pushes
\* are in flight and advances the sender's counter by exactly one when both
\* have returned, whatever the nodes answered; an invocation that does not
\* push changes no counter.
C3_ContentionOnce ==
    [][(op' \in RaceVectors) =>
          IF active \in RaceVectors /\ active' = "idle"
          THEN /\ race.pending = {}
               /\ nonces' = [nonces EXCEPT ![race.from] = race.nonce + 1]
               /\ nonces[race.from] = race.nonce
          ELSE nonces' = nonces]_vars

\* both racing pushes were rejected and the counter advanced all the same
C3_Witness ==
    /\ op \in RaceVectors
    /\ active = "idle"
    /\ race.from \in Wallets
    /\ race.pending = {}
    /\ race.errs = {"A", "B"}
    /\ nonces[race.from] = race.nonce + 1

\* C4: the invalid-signature vector sends its message with the sender's
\* current nonce and changes no counter, whether the node rejects or
\* accepts the push.
C4_InvalidSigNoConsume ==
    [][(op' = "doInvalidSignature" /\ evs' # <<>>) =>
          /\ Len(evs') = 1
          /\ evs'[1].type = "push"
          /\ evs'[1].kind = "garbage"
          /\ evs'[1].nonce = nonces[evs'[1].from]
          /\ nonces' = nonces]_vars

\* a node accepted the garbage signature and the counter still stands
C4_Witness ==
    /\ op = "doInvalidSignature"
    /\ Len(evs) = 1
    /\ evs[1].ok
    /\ nonces[evs[1].from] = evs[1].nonce

\* C5 as stated: whatever is signed carries the sender's counter value as
\* its Nonce, and the value was read under the counter's lock.
C5_NonceReadUnderLock ==
    [][\A i \in 1 .. Len(evs') :
          (evs'[i].type = "sign" /\ evs'[i].ok) =>
             /\ evs'[i].locked
             /\ IF evs'[i].kind = "evm"
                THEN evs'[i].from \in DOMAIN ethNonces /\ evs'[i].nonce = ethNonces[evs'[i].from]
                ELSE evs'[i].nonce = nonces[evs'[i].from]]_vars

\* C5 amended: a native message is signed with the sender's counter value,
\* read without a lock; an EVM transaction is signed with the value that was
\* read under ethNoncesMu, and when it is signed the cache entry is already
\* one past that value.
C5_NonceAtSigning ==
    [][\A i \in 1 .. Len(evs') :
          (evs'[i].type = "sign" /\ evs'[i].ok) =>
             IF evs'[i].kind = "evm"
             THEN /\ evs'[i].locked
                  /\ evs'[i].from \in DOMAIN ethNonces
                  /\ ethNonces[evs'[i].from] = evs'[i].nonce + 1
             ELSE /\ ~evs'[i].locked
                  /\ evs'[i].nonce = nonces[evs'[i].from]]_vars

\* an EVM transaction has been signed with a nonce the cache is one past
C5_Witness ==
    /\ eth.pos = "signed"
    /\ Len(evs) = 1
    /\ evs[1].kind = "evm" /\ evs[1].ok
    /\ ethNonces[eth.key] = evs[1].nonce + 1

C7_EthInvalidate ==
    [][/\ op' = "sendEthTx" => nonces' = nonces
       /\ \A i \in 1 .. Len(evs') :
             (evs'[i].type = "push" /\ evs'[i].kind = "evm" /\ ~evs'[i].ok) =>
                /\ evs'[i].from \notin DOMAIN ethNonces'
                /\ \A k \in DOMAIN ethNonces \ {evs'[i].from} :
                      k \in DOMAIN ethNonces' /\ ethNonces'[k] = ethNonces[k]
       /\ \A k \in DOMAIN ethNonces' \ DOMAIN ethNonces :
             /\ eth'.pos = "reserved" /\ eth'.key = k
             /\ eth'.source = "node"
             /\ ethNonces'[k] = eth'.nonce + 1
       /\ (eth'.pos = "reserved" /\ eth.pos = "locked" /\ eth.key \notin DOMAIN ethNonces)
             => eth'.source = "node"]_vars

\* a send has just failed: the sender's entry is gone, another sender's stays
C7_Witness ==
    /\ op = "sendEthTx"
    /\ Len(evs) = 1
    /\ evs[1].type = "push" /\ evs[1].kind = "evm" /\ ~evs[1].ok
    /\ evs[1].from \notin DOMAIN ethNonces
    /\ DOMAIN ethNonces # {}

(***************************************************************************)
(* Scheduler claims, stated over SpecDeck.                                 *)
(***************************************************************************)
InLoop == pc \in {"pick", "run", "sleep"}

\* C8: buildDeck yields a deck with at least one entry or the process ends
\* fatally; the main loop never picks from an empty deck, and no step taken
\* after the deck is built modifies it.
C8_DeckNeverEmpty ==
    [][ /\ (pc' \in {"pick", "run", "sleep"} => Len(deck') >= 1)
        /\ (pc = "start" /\ pc' = "fatal" => Len(deck') = 0)
        /\ (pc' = "run" /\ pc = "pick" => idx' + 1 \in DOMAIN deck')
        /\ (pc # "start" => deck' = deck /\ pc' \notin {"start", "fatal", "exit"}) ]_vars

C8_Witness == pc = "fatal" /\ proc = "engine" /\ deck = <<>>

\* The weight W_v of an environment value: its integer, or the default when
\* the variable is unset or unparsable.
Weight(v, def) == IF v.set /\ v.ok THEN v.n ELSE def

AllAttacks(x) == UNION {{categories(x)[c].attacks[j] : j \in 1 .. Len(categories(x)[c].attacks)}
                        : c \in 1 .. Len(categories(x))}

\* C9: when buildDeck is done, every vector v has exactly W_v entries in it
\* when W_v > 0 and none when W_v <= 0; in the fuzzer every attack of a
\* category appears exactly W_category times; the deck holds nothing else.
C9_DeckCounts ==
    (pc = "fatal" \/ (pc = "pick" /\ stage = "built")) =>
        IF proc = "engine"
        THEN /\ \A i \in 1 .. Len(actions) :
                   LET w == Weight(env[actions[i].envVar], actions[i].defWeight)
                   IN  Count(deck, namedAction(actions[i])) = IF w > 0 THEN w ELSE 0
             /\ \A k \in 1 .. Len(deck) :
                   \E i \in 1 .. Len(actions) : deck[k] = namedAction(actions[i])
        ELSE /\ \A c \in 1 .. Len(categories(extra)) :
                   LET cat == categories(extra)[c]
                       w == Weight(env[cat.envVar], cat.defWeight)
                   IN  \A j \in 1 .. Len(cat.attacks) :
                           Count(deck, cat.attacks[j]) = IF w > 0 THEN w ELSE 0
             /\ \A k \in 1 .. Len(deck) : deck[k] \in AllAttacks(extra)

C9_Witness ==
    /\ proc = "engine"
    /\ pc = "pick"
    /\ env["STRESS_WEIGHT_TRANSFER"] = Num(2)
    /\ env["STRESS_WEIGHT_DEPLOY"] = Bad
    /\ Count(deck, namedAction(actions[1])) = 2
    /\ Count(deck, namedAction(actions[6])) = 2

Looping == InLoop \/ stage \in {"action", "sleep"}

\* C11: no action is ever executed after a failed startup.  The stress
\* engine is past connectNodes only with a connected node and past
\* loadKeystore only with a readable keystore that gave a valid key, and it
\* has stopped fatally otherwise; the fuzzer is past waitForNodes only with a
\* discovered target, and has stopped fatally once the startup window closed
\* without one.  In particular the main loop runs only after all of these.
C11_NoActionAfterFailedStartup ==
    /\ proc = "engine" /\ pc # "connectNodes" /\ nodeKeys = <<>> => pc = "fatal"
    /\ proc = "engine" /\ keyfile \in {"unreadable", "unparsable"} => pc = "fatal"
    /\ proc = "engine" /\ keyfile = "parsed" /\ addrs = <<>> => pc = "fatal"
    /\ proc = "fuzzer" /\ attempts >= MaxAttempts /\ targets = <<>>
          => pc \in {"waitForNodes", "fatal"} /\ ~Looping
    /\ Looping => IF proc = "engine"
                  THEN nodeKeys # <<>> /\ keyfile = "parsed" /\ addrs # <<>>
                  ELSE targets # <<>>
    /\ pc = "fatal" => stage \in {"none"}

\* the keystore could not be read although a node was connected: the engine
\* has stopped before its loop
C11_Witness ==
    /\ proc = "engine"
    /\ nodeKeys # <<>>
    /\ keyfile = "unreadable"
    /\ pc = "fatal"
    /\ stage = "none"

(***************************************************************************)
(* The pending-deploy queue, stated over SpecQueue.                        *)
(***************************************************************************)
\* the lookups among the first i that found no receipt
NotFound(rs, i) == {j \in 1 .. i : rs[j] = "notfound"}

\* C12: the pending-deploy queue never holds more than maxPendingDeploys
\* entries.  An invocation of the deploy vector puts the entries whose
\* receipt was not found back at the front of the queue, in their order,
\* adds at most one entry behind them, and adds none when the entries put
\* back already fill the queue.
C12_QueueWithinCap ==
    [][/\ Len(pendingDeploys) <= maxPendingDeploys
       /\ Len(pendingDeploys') <= maxPendingDeploys
       /\ op' = "DoDeployContracts" =>
             LET k == Cardinality(NotFound(receipts', Len(pendingDeploys)))
             IN  /\ Len(receipts') = Len(pendingDeploys)
                 /\ k <= Len(pendingDeploys') /\ Len(pendingDeploys') <= k + 1
                 /\ \A i \in NotFound(receipts', Len(pendingDeploys)) :
                       pendingDeploys'[Cardinality(NotFound(receipts', i))] = pendingDeploys[i]
                 /\ k >= maxPendingDeploys => Len(pendingDeploys') = k]_vars

\* a full queue whose entries were all put back, and a deployment the node
\* accepted that was not enqueued behind them
C12_Witness ==
    /\ op = "DoDeployContracts"
    /\ Len(receipts) = maxPendingDeploys
    /\ \A i \in 1 .. Len(receipts) : receipts[i] = "notfound"
    /\ Len(evs) = 2 /\ evs[2].type = "push" /\ evs[2].ok
    /\ Len(pendingDeploys) = maxPendingDeploys
    /\ \A i \in 1 .. Len(pendingDeploys) :
          pendingDeploys[i].msgCid # <<evs[2].from, evs[2].nonce>>


(***************************************************************************)
(* C13: the deployed-contract registry is append-only. Every step leaves   *)
(* the registry it found as a prefix of the registry it leaves; what it    *)
(* appends is one entry per deployment whose receipt was found successful  *)
(* and decodable in that step, in queue order, carrying that deployment's  *)
(* type and deployer; a step that looks up no receipt, a self-destruct     *)
(* cycle included, leaves the registry as it was.                          *)
(***************************************************************************)
Confirmed(rs) == {i \in 1 .. Len(rs) : rs[i] = "success"}

C13_RegistryAppendOnly ==
    [][ /\ Len(deployedContracts') = Len(deployedContracts) + Cardinality(Confirmed(receipts'))
        /\ SubSeq(deployedContracts', 1, Len(deployedContracts)) = deployedContracts
        /\ \A i \in Confirmed(receipts') :
              LET e == deployedContracts'[Len(deployedContracts)
                                          + Cardinality({j \in Confirmed(receipts') : j <= i})]
              IN  /\ e.addr = pendingDeploys[i].msgCid
                  /\ e.ctype = pendingDeploys[i].ctype
                  /\ e.deployer = pendingDeploys[i].deployer
        /\ op' # "DoDeployContracts" => deployedContracts' = deployedContracts ]_vars

\* a contract is registered, and a self-destruct cycle has since deployed,
\* destroyed and compared its contract across the nodes
C13_Witness ==
    /\ Len(deployedContracts) > 0
    /\ op = "DoSelfDestructCycle"
    /\ Len(asserts) = 1

(***************************************************************************)
(* C14: in every sub-check of the chain monitor, once a queried node has   *)
(* returned an RPC error during the check, the check emits no failing      *)
(* assertion about what the nodes report of the chain.                     *)
(***************************************************************************)
RpcError(an) ==
    \E n \in DOMAIN an :
        \/ an[n].head = -1 \/ an[n].fin = -1 \/ an[n].peers = -1
        \/ an[n].msgs = -1 \/ an[n].rcpts = -1
        \/ an[n].key = "error"

\* a false assert.Sometimes is no failure
Failed(as) == {i \in 1 .. Len(as) : ~as[i].ok /\ "sometimes" \notin DOMAIN as[i]}

\* the failed assertions on data read from the chain
Divergences(as) == {i \in Failed(as) : as[i].anchor # "none"}

C14_SilentOnRpcError ==
    (op \in Range(checkNames) /\ RpcError(rpc)) => Divergences(asserts) = {}

(***************************************************************************)
(* C15: every assertion of the stress engine that compares chain state     *)
(* across nodes compares data read at tipsets anchored on the nodes'       *)
(* finalized tipsets.                                                      *)
(***************************************************************************)
StateEqualityAssertions ==
    {"All nodes agree on the same finalized tipset",
     "Nodes at the same height agree on the same tipset",
     "Chain state is consistent across all nodes",
     "State root is consistent after FVM execution",
     "Parent messages match across nodes",
     "Parent receipts match across nodes",
     "post_reorg_state_consistent",
     "selfdestruct_state_correct"}

C15_FinalizedAnchor ==
    \A i \in 1 .. Len(asserts) :
        asserts[i].name \in StateEqualityAssertions => asserts[i].anchor = "finalized"

(***************************************************************************)
(* C16: after the partition cycles DoReorgChaos asserts, for every node    *)
(* that reports its peers, that it has at least one; that the parent-state *)
(* roots the nodes report at a finalized height are all equal; and that    *)
(* the spread of the nodes' finalized heights is at most 10.               *)
(***************************************************************************)
Asked(field) == {n \in Nodes : rpc[n][field] \notin {-2, -1}}

C16_PostReorgChecks ==
    op = "DoReorgChaos" =>
       /\ Round("finalized") =>
             /\ Len(asserts) = Cardinality(Asked("peers"))
             /\ Failed(asserts) = {} <=> \A n \in Asked("peers") : rpc[n].peers > 0
       /\ Round("spread") =>
             /\ Len(asserts) = 1
             /\ asserts[1].anchor = "finalized"
             /\ asserts[1].ok <=> \A m, n \in Nodes : rpc[m].key = rpc[n].key
       /\ (active = "idle" /\ Cardinality(Asked("head")) >= 2) =>
             /\ Len(asserts) = 1
             /\ asserts[1].ok <=>
                   \A m, n \in Nodes : rpc[m].fin - rpc[n].fin <= 10

(***************************************************************************)
(* C17: GetForStream creates a host on its first call and returns that     *)
(* same host on every later call; no second stream host is ever created.   *)
(***************************************************************************)
StreamHosts(p) == {h \in 1 .. Len(p.log) : p.log[h].kind = "stream"}

C17_FirstCallCreates ==
    [][op' = "GetForStream" =>
          /\ pool.streamCalls = 0 =>
                /\ pool'.streamHost # 0
                /\ pool'.ret = [h |-> pool'.streamHost, err |-> FALSE]
          /\ pool.streamCalls > 0 =>
                /\ pool'.streamHost = pool.streamHost
                /\ pool'.ret = [h |-> pool.streamHost, err |-> FALSE]
          /\ Cardinality(StreamHosts(pool')) <= 1]_vars

(***************************************************************************)
(* C17, amended: a call of GetForStream that finds no stream host creates  *)
(* one and returns it, or fails to create it, returns an error and leaves  *)
(* the pool without a stream host; a call that finds the stream host       *)
(* returns it and creates nothing. No call of any kind replaces the stream *)
(* host, and at most one stream host is ever created.                      *)
(***************************************************************************)
C17_SingleStreamHost ==
    [][ /\ pool.streamHost # 0 => pool'.streamHost = pool.streamHost
        /\ Cardinality(StreamHosts(pool')) <= 1
        /\ StreamHosts(pool') = {pool'.streamHost} \ {0}
        /\ op' = "GetForStream" =>
              /\ pool.streamHost # 0 =>
                    /\ pool'.ret = [h |-> pool.streamHost, err |-> FALSE]
                    /\ pool'.log = pool.log
              /\ pool.streamHost = 0 =>
                    \/ /\ pool'.ret = [h |-> 0, err |-> TRUE]
                       /\ pool'.streamHost = 0
                       /\ pool'.log = pool.log
                    \/ /\ pool'.streamHost = Len(pool.log) + 1
                       /\ pool'.ret = [h |-> pool'.streamHost, err |-> FALSE]
                       /\ Len(pool'.log) = Len(pool.log) + 1 ]_vars

\* the stream host, created after another host, is returned by a later call
C17_Witness ==
    /\ op = "GetForStream"
    /\ pool.streamCalls = 2
    /\ pool.streamHost > 1
    /\ pool.ret = [h |-> pool.streamHost, err |-> FALSE]
    /\ Len(pool.log) > pool.streamHost

(***************************************************************************)
(* C18: the gossip pool never holds more than maxPool hosts, and a call    *)
(* of GetForGossip that evicts does so at capacity and evicts the host     *)
(* created earliest among those in the pool.                               *)
(***************************************************************************)
C18_PoolWithinSizeFifo ==
    [][ /\ Len(pool'.hosts) <= pool'.maxPool
        /\ pool'.evicted # 0 =>
              /\ op' = "GetForGossip"
              /\ Len(pool.hosts) = pool.maxPool
              /\ pool'.evicted \in Range(pool.hosts)
              /\ \A h \in Range(pool.hosts) : pool'.evicted <= h
              /\ pool'.evicted \notin Range(pool'.hosts)
              /\ Range(pool.hosts) \ {pool'.evicted} \subseteq Range(pool'.hosts) ]_vars

\* a full pool of two: the older host was evicted for a new one
C18_Witness ==
    /\ op = "GetForGossip"
    /\ pool.maxPool = 2
    /\ Len(pool.hosts) = 2
    /\ pool.evicted # 0
    /\ pool.evicted < pool.hosts[1]
    /\ pool.ret.h = pool.hosts[2]

C20_ClosedOnRemoval ==
    [][ /\ Range(pool.hosts) \ Range(pool'.hosts) \subseteq pool'.closed
        /\ pool'.evicted # 0 => pool'.evicted \in pool'.closed \ pool.closed
        /\ pool.closed \subseteq pool'.closed
        /\ Range(pool'.hosts) \cap pool'.closed = {}
        /\ DOMAIN pool'.budgets = Range(pool'.hosts)
        /\ op' = "CloseAll" =>
              /\ ({pool.streamHost} \ {0}) \cup Range(pool.hosts) \subseteq pool'.closed
              /\ pool'.hosts = <<>>
              /\ DOMAIN pool'.budgets = {} ]_vars

\* shutdown of a pool that had evicted a host and holds a stream host and a gossip host
C20_Witness ==
    /\ op = "CloseAll"
    /\ pool.streamHost # 0
    /\ Cardinality(pool.closed) >= 3
    /\ \E h \in pool.closed : pool.log[h].kind = "gossip" /\ pool.log[h].uses < pool.log[h].budget

(***************************************************************************)
(* Parallel sub-tasks of an action.                                        *)
(***************************************************************************)
\* the sub-tasks a step starts
Started == IF "pending" \in DOMAIN race' /\ "pending" \in DOMAIN race
           THEN race'.pending \ race.pending ELSE {}

\* C21: every action that runs sub-tasks in parallel starts a bounded number
\* of them and returns only after all of them have finished, so that none is
\* running when the main loop picks the next action, and no sub-task writes a
\* nonce counter
C21_JoinedBeforeNextPick ==
    /\ [](active = "idle" => race.pending = {})
    /\ [][/\ Cardinality(Started) <= burstSize
          /\ (race.pending # {} /\ active' # "idle") => nonces' = nonces]_vars

(***************************************************************************)
(* Reproducibility of what the engine emits.                               *)
(***************************************************************************)
\* the calls of goroutine g among the calls of a step
CallsBy(es, g) == SelectSeq(es, LAMBDA e : e.g = g)

Goroutines(es) == {es[i].g : i \in 1 .. Len(es)} \ {0}

\* the goroutines of a step in the order they were started
RECURSIVE Started_(_, _)
Started_(es, k) ==
    IF k > Len(NodeNames) THEN <<>>
    ELSE (IF k \in Goroutines(es) THEN <<CallsBy(es, k)>> ELSE <<>>) \o Started_(es, k + 1)

\* what another run of the step could emit when the random source and the
\* nodes return the same values: the calls of the main goroutine as they are,
\* the calls of the goroutines in any order that keeps the order of each
Reschedules(es) == {CallsBy(es, 0) \o m : m \in InterleaveAll(Started_(es, 1))}

\* the (action name, RPC method, nonce used) of the calls
Emitted(vec, es) ==
    [i \in 1 .. Len(es) |-> [action |-> vec, method |-> es[i].method, nonce |-> es[i].nonce]]

\* C22: for a fixed environment and fixed values returned by the random
\* source and by the nodes, two runs emit the same sequence of (action name,
\* RPC method, nonce used)
C22_Reproducible == \A alt \in Reschedules(evs) : Emitted(op, alt) = Emitted(op, evs)

(***************************************************************************)
(* Deposit accounting.                                                     *)
(***************************************************************************)
DepositAssertions ==
    {i \in 1 .. Len(asserts) :
        asserts[i].name = "USDFC deposit increases FilecoinPay account balance"}

\* C23: the deposit-accounting assertion is evaluated only after a confirmed
\* deposit of V, and it holds exactly when the funds read after the deposit
\* equal the funds read before it plus V
C23_DepositAccounting ==
    \A i \in DepositAssertions :
       /\ chain.pending = 0
       /\ asserts[i].ok <=>
             asserts[i].details.funds_after
                = asserts[i].details.funds_before + asserts[i].details.amount

(***************************************************************************)
(* The height the finalized-state checks compare at.                       *)
(***************************************************************************)
HeightChecks == {"doTipsetConsensus", "doStateRootComparison", "doStateAudit", "DoReorgChaos"}

HeightComparisons ==
    {"All nodes agree on the same finalized tipset",
     "Chain state is consistent across all nodes",
     "State root is consistent after FVM execution",
     "post_reorg_state_consistent"}

\* the nodes asked for the tipset at the check height in this invocation
Queried == {n \in Nodes : rpc[n].at # 0}

\* C24: in the tipset-consensus, state-root, state-audit and post-reorg
\* checks the compared height is at least 1 and at most the minimum of the
\* finalized heights the nodes reported, so a node is only asked at a height
\* it reported as finalized; when a node did not report or the minimum is
\* under finalizedMinHeight (5), no node is asked and nothing is compared
C24_CheckHeightFinalized ==
    /\ \A n \in Queried :
          /\ op \in HeightChecks
          /\ rpc[n].at >= 1
          /\ \A m \in Nodes : rpc[m].fin >= finalizedMinHeight /\ rpc[n].at <= rpc[m].fin
    /\ \A i \in 1 .. Len(asserts) :
          asserts[i].name \in HeightComparisons =>
             /\ Queried # {}
             /\ \A m, n \in Queried : rpc[m].at = rpc[n].at

\* the nodes are compared at the minimum itself, which another node is past
C24_Witness ==
    /\ Len(asserts) = 1
    /\ asserts[1].name \in HeightComparisons
    /\ \E m, n \in Queried :
          rpc[n].at = rpc[n].fin /\ rpc[n].fin = finalizedMinHeight /\ rpc[m].fin > rpc[n].fin

(***************************************************************************)
(* Height progression.                                                     *)
(***************************************************************************)
SpreadAssertions ==
    {i \in 1 .. Len(asserts) :
        asserts[i].name = "Node chain heights are within acceptable range"}

\* the check has run to its end and asserted something
Progressed == op = "doHeightProgression" /\ active = "idle" /\ asserts # <<>>

\* C25: the height-progression check asserts that the spread of the nodes'
\* finalized heights is at most 10, and asserts nothing unless every node
\* has passed the bootstrap threshold
C25_HeightProgression ==
    Progressed =>
       /\ \A n \in Nodes : rpc[n].fin >= finalizedMinHeight
       /\ SpreadAssertions # {}
       /\ \A i \in SpreadAssertions :
             asserts[i].ok <=> \A m, n \in Nodes : rpc[m].fin - rpc[n].fin <= 10

(***************************************************************************)
(* DoHeavyCompute.                                                         *)
(***************************************************************************)
\* C26: DoHeavyCompute always terminates; it recomputes at most 5 epochs
\* per invocation, all of them between head-12 and head-2; each recomputed
\* root is compared with the parent-state root stored in the child tipset;
\* and it stops at the first mismatch or RPC error
C26_BoundedWalk ==
    /\ [](/\ Len(compute.computed) <= computeTargetEpochs
          /\ \A i \in 1 .. Len(compute.computed) :
                /\ compute.computed[i].exec_height >= compute.head - 12
                /\ compute.computed[i].exec_height <= compute.head - 2
                /\ compute.computed[i].exec_height < compute.computed[i].check_height
                /\ i < Len(compute.computed) =>
                      /\ compute.computed[i].computed_root = compute.computed[i].expected_root
                      /\ compute.computed[i + 1].check_height = compute.computed[i].exec_height
          /\ active = "DoHeavyCompute" =>
                /\ ~compute.failed
                /\ \A i \in 1 .. Len(compute.computed) :
                      compute.computed[i].computed_root = compute.computed[i].expected_root
          /\ \A i \in 1 .. Len(asserts) :
                asserts[i].name = "Recomputed state root matches stored state" =>
                   (asserts[i].ok <=>
                       compute.computed[Len(compute.computed)].computed_root
                          = compute.computed[Len(compute.computed)].expected_root))
    /\ (active = "DoHeavyCompute" ~> active = "idle")

\* five epochs were recomputed, down to the lowest one allowed
C26_Witness ==
    /\ Len(compute.computed) = computeTargetEpochs
    /\ compute.computed[computeTargetEpochs].exec_height = compute.head - 12
    /\ active = "idle"

\* a mismatch ended the walk after an epoch that matched
C26_WitnessMismatch ==
    /\ Len(compute.computed) = 2
    /\ compute.computed[2].computed_root # compute.computed[2].expected_root
    /\ active = "idle"

(***************************************************************************)
(* The partition cycles of DoReorgChaos.                                   *)
(***************************************************************************)
\* the victim has been cut from its peers and the cycle has not reconnected it
Partitioned == reorg.phase \in {"wait", "heal"}

\* C27: DoReorgChaos runs K cycles, K in 1 .. 10; a cycle that disconnects
\* the victim calls NetConnect on every saved peer and on every known node
\* address before the next cycle starts or the action returns, so it never
\* returns from a partition it made without trying to reconnect
C27_PartitionHealed ==
    /\ [](reorg.phase \in {"cycle", "wait", "heal", "end"} =>
             /\ reorg.numCycles >= 1
             /\ reorg.numCycles <= 10
             /\ reorg.cycle <= reorg.numCycles
             /\ Partitioned => reorg.cycle < reorg.numCycles)
    /\ [][(Partitioned /\ reorg'.phase \notin {"wait", "heal"}) =>
             /\ reorg'.phase = "cycle"
             /\ active' = "DoReorgChaos"
             /\ reorg'.cycle = reorg.cycle + 1
             /\ reorg.savedPeers \cup reorg.knownPeers \subseteq reorg'.connectTried]_vars

\* ten cycles were asked for and every one of them split and healed
C27_Witness ==
    /\ reorg.numCycles = 10
    /\ reorg.successfulCycles = 10
    /\ reorg.phase = "cycle"
    /\ "miner0" \in reorg.savedPeers
    /\ reorg.knownPeers # {}
    /\ reorg.connectTried = reorg.savedPeers \cup reorg.knownPeers

(***************************************************************************)
(* waitForEpochsOnOther.                                                   *)
(***************************************************************************)
\* the wait is over: the cycle goes on to reconnect
WaitOver == reorg.phase = "heal"

Watching == reorg.phase = "wait"

\* the head last seen is at the target
Advanced(w) == w.head # -1 /\ w.head >= w.target

\* C28: waitForEpochsOnOther always returns; it returns as soon as the head
\* of a node other than the victim has advanced by the target number of
\* epochs, at the timeout when the chain does not advance or the node keeps
\* failing, and after a fixed time-based sleep when there is no node other
\* than the victim or the first head query fails; it never watches the victim
C28_WaitReturns ==
    /\ [](/\ reorg.wait.watch # reorg.victim \/ reorg.wait.watch = ""
          /\ Watching =>
                /\ reorg.wait.watch \in Nodes
                /\ reorg.wait.target = StartHeight + reorg.wait.n
                /\ ~Advanced(reorg.wait)
                /\ reorg.wait.slept = 0
          /\ (WaitOver /\ reorg.wait.slept = 0) =>
                reorg.wait.fired \/ Advanced(reorg.wait)
          /\ reorg.wait.slept # 0 =>
                /\ reorg.wait.slept = reorg.wait.n * 6
                /\ reorg.wait.watch = "" \/ reorg.wait.head = -1
                /\ ~reorg.wait.fired)
    /\ [][/\ (Watching /\ reorg.wait.fired /\ reorg' # reorg) =>
                reorg'.phase = "heal" /\ reorg'.wait = reorg.wait
          /\ (reorg.phase = "cycle" /\ reorg'.phase = "heal") => reorg'.wait.slept # 0]_vars
    /\ (Watching ~> WaitOver)

\* the deadline ended a wait in which the watched node kept failing
C28_Witness ==
    /\ WaitOver
    /\ reorg.wait.fired
    /\ reorg.wait.head = -1
    /\ reorg.wait.watch # ""
    /\ reorg.wait.slept = 0

(***************************************************************************)
(* The nodes and the nonce of the contention vectors.                      *)
(***************************************************************************)
\* the node the goroutine g pushes to
RaceNode(rc, g) == IF g = "A" THEN rc.nodeA ELSE rc.nodeB

\* C29: every contention vector that pushes sends its two messages to two
\* different nodes, both with the nonce the sender's counter held before
\* either push; with fewer than two nodes connected it pushes nothing
C29_TwoNodesSameNonce ==
    /\ [](active \in RaceVectors =>
             /\ Len(nodeKeys) >= 2
             /\ race.nodeA # race.nodeB
             /\ {race.nodeA, race.nodeB} \subseteq Nodes
             /\ race.nonce = nonces[race.from])
    /\ [][(op' \in RaceVectors) =>
             \A i \in 1 .. Len(evs') :
                evs'[i].type = "push" =>
                   /\ Len(nodeKeys) >= 2
                   /\ active \in RaceVectors
                   /\ evs'[i].from = race.from
                   /\ evs'[i].nonce = nonces[race.from]
                   /\ evs'[i].nonce = race.nonce
                   /\ \E g \in race.pending \ race'.pending :
                         evs'[i].node = RaceNode(race, g)]_vars

\* the contract race has pushed to both nodes and is about to join
C29_Witness ==
    /\ op = "DoConflictingContractCalls"
    /\ active = "DoConflictingContractCalls"
    /\ race.pending = {}
    /\ Len(evs) = 1
    /\ evs[1].type = "push"
    /\ evs[1].nonce = nonces[race.from]

(***************************************************************************)
(* Concurrent sendEthTx calls of one sender.                               *)
(***************************************************************************)
\* the calls that signed a transaction
Signers == {g \in Callers : sends.call[g].signed}

\* the two calls ran at the same time
Concurrent(g, h) == g \in sends.call[h].during \/ h \in sends.call[g].during

\* C30: of several sendEthTx calls that run at once for one sender, in any
\* interleaving and whichever of them fail and invalidate the cache, no two
\* sign a transaction with the same nonce
C30_DistinctNonces ==
    \A g, h \in Signers :
       (g # h /\ Concurrent(g, h)) => sends.call[g].nonce # sends.call[h].nonce

(***************************************************************************)
(* DoGasWar: the counter and the two messages.                             *)
(***************************************************************************)
\* Tx_A of the gas war of this step was accepted by the node
TxAAccepted(es) == Len(es) >= 2 /\ es[2].type = "push" /\ es[2].ok

\* the events of the step that belong to Tx_B: everything after Tx_A's push
TxBEvents(es) == {i \in 1 .. Len(es) : i > 2}

\* C31: in DoGasWar the sender's counter is unchanged and Tx_B is neither
\* signed nor pushed when Tx_A cannot be signed or is rejected; once Tx_A
\* has been accepted the counter is advanced exactly once, whether Tx_B
\* fails to sign, is rejected or is accepted; Tx_B always carries Tx_A's
\* nonce, which is the counter's value when the vector began; the counters
\* of the other wallets are left alone.
C31_GasWarCounter ==
    [][(op' = "DoGasWar" /\ evs' # <<>>) =>
          LET es   == evs'
              from == es[1].from
          IN  /\ es[1].type = "sign" /\ es[1].nonce = nonces[from]
              /\ \A w \in DOMAIN nonces : w # from => nonces'[w] = nonces[w]
              /\ \A i \in 1 .. Len(es) :
                    es[i].from = from /\ es[i].nonce = es[1].nonce
              /\ IF TxAAccepted(es)
                 THEN /\ nonces'[from] = nonces[from] + 1
                      /\ es[1].ok
                      /\ Len(es) \in {3, 4}
                      /\ es[3].type = "sign"
                      /\ Len(es) = 4 <=> es[3].ok
                      /\ Len(es) = 4 => es[4].type = "push"
                 ELSE /\ nonces'[from] = nonces[from]
                      /\ TxBEvents(es) = {}
                      /\ Len(es) = 2 <=> es[1].ok]_vars

\* Tx_A was accepted and Tx_B, carrying the same nonce, was rejected: the
\* counter stands one past that nonce
C31_Witness ==
    /\ op = "DoGasWar"
    /\ Len(evs) = 4
    /\ evs[2].ok /\ ~evs[4].ok
    /\ evs[4].nonce = evs[2].nonce
    /\ nonces[evs[1].from] = evs[1].nonce + 1

\* Tx_A was rejected: one signing, one push, the counter still at the nonce
C31_WitnessRejected ==
    /\ op = "DoGasWar"
    /\ Len(evs) = 2
    /\ evs[1].ok /\ ~evs[2].ok
    /\ nonces[evs[1].from] = evs[1].nonce

(***************************************************************************)
(* runExchangeServerAttack: the order of its statements and its exits.     *)
(***************************************************************************)
BothHandlers == <<"exchange", "hello">>

\* the attack is in its select
Waiting == ServerAt("select")

\* the hosts createHost has made so far
HostsMade == 1 .. Len(pool.log)

\* C32: every server-side exchange attack takes a host that no earlier call
\* was given; the exchange handler and the Hello handler are both set on it
\* when Connect is called and when the trigger Hello is sent; the attack
\* leaves its select only with the token of the served channel or after the
\* 15 s timer has fired, and it does leave it; and whenever the function is
\* not running every host it was given is closed, while the host of the
\* attack in progress is open.
C32_ServerAttackOrder ==
    /\ [](server.atConnect \in {<<>>, BothHandlers})
    /\ [](server.atHello \in {<<>>, BothHandlers})
    /\ []((server.pc # 0 /\ serverBody[server.pc] \in {"sendTriggerHello", "select"}) =>
             server.atConnect = BothHandlers)
    /\ [](IF server.pc = 0 THEN HostsMade \subseteq server.closed
          ELSE server.h \in HostsMade \ server.closed)
    /\ [][(server.pc = 0 /\ server'.pc # 0) =>
             /\ server'.h \notin HostsMade
             /\ server'.h \notin server.closed
             /\ pool'.log[server'.h].kind = "fresh"
             /\ server'.h \notin Range(pool'.hosts) \cup {pool'.streamHost}
             /\ server'.handlers = <<>>]_vars
    /\ [][(Waiting /\ server'.pc = 0) =>
             /\ server.h \in server.full \/ server.fired
             /\ server'.how = "served" => server.h \in server.full
             /\ server'.how = "timeout" => server.fired
             /\ server.h \in server'.closed]_vars
    /\ (Waiting ~> server.pc = 0)

\* an attack connected, sent its Hello, waited until the timer fired and
\* returned with its host closed
C32_Witness ==
    /\ server.pc = 0
    /\ server.how = "timeout"
    /\ server.atHello = BothHandlers
    /\ server.h \in server.closed

\* an attack returned because the handler had served
C32_WitnessServed ==
    /\ server.pc = 0
    /\ server.how = "served"
    /\ server.got = 1
    /\ server.h \in server.closed

\* an attack returned because the connection failed, with its host closed
C32_WitnessConnectFailed ==
    /\ server.pc = 0
    /\ server.how = "connect failed"
    /\ server.h \in server.closed

(***************************************************************************)
(* The served channel of runExchangeServerAttack.                          *)
(***************************************************************************)
Invocations == 1 .. MaxInvocations

\* the handler invocations of host h that put a token into its channel
Senders(h) == {k \in Invocations : server.inv[k].h = h /\ server.inv[k].sent}

\* invocation k is at its select and the attack it belongs to has returned
SignalsAfterReturn(k) ==
    /\ server.inv[k].pos = "signal"
    /\ server.inv[k].h \in server.closed

\* C39: the malicious exchange handler never blocks at its signal: an
\* invocation that has reached its select can always take its next step,
\* whether the channel holds a token or not and whether the attack is still
\* waiting or has returned; every invocation that started completes; the
\* channel holds at most one token; an attack receives at most one token,
\* and only a token an invocation on its own host has put there: the tokens
\* put into a channel are the one it holds and the one its attack received.
C39_SignalNeverBlocks ==
    /\ [](\A k \in Invocations :
             server.inv[k].pos = "signal" => signal(server.full, server.inv[k].h).done)
    /\ [](server.got \in {0, 1})
    /\ [](server.got = 1 => Senders(server.h) # {})
    /\ [](\A h \in server.full : Senders(h) # {})
    /\ [](\A h \in HostsMade :
             Cardinality(Senders(h)) =
                (IF h \in server.full THEN 1 ELSE 0) + (IF h \in server.taken THEN 1 ELSE 0))
    /\ [][server'.got # server.got => server'.got \in {0, server.got + 1}]_vars
    /\ [][\A k \in Invocations :
             (server.inv[k].pos = "signal" /\ server'.inv[k].pos # "signal") =>
                /\ server'.inv[k].pos = "done"
                /\ server'.inv[k].sent <=> server.inv[k].h \notin server.full
                /\ server'.full = server.full \cup {server.inv[k].h}]_vars
    /\ \A k \in Invocations :
          (server.inv[k].pos # "none") ~> (server.inv[k].pos = "done")

\* two invocations ran on one host; the second came to its select after the
\* attack had timed out and returned, found the channel full and completed
\* without sending
C39_Witness ==
    /\ server.how = "timeout"
    /\ \E j, k \in Invocations :
          /\ j # k
          /\ server.inv[j].h = server.inv[k].h
          /\ server.inv[j].h \in server.closed
          /\ server.inv[j].pos = "done" /\ server.inv[j].sent
          /\ server.inv[k].pos = "done" /\ ~server.inv[k].sent
          /\ ~server.inv[k].eof

\* an invocation is at its select after its attack has returned
C39_WitnessLate == \E k \in Invocations : SignalsAfterReturn(k)

(***************************************************************************)
(* The multi-block tipsets of R22, R23 and R24.                            *)
(***************************************************************************)
\* the block headers of the tipset of the response, and field i (counted
\* from 0 as in the BlockHeader's CBOR tuple) of a header
Blocks == resp.ts.val[1].val
Field(blk, i) == blk.val[i + 1]

\* Parents, Height, ParentStateRoot, ParentMessageReceipts, Messages
TipsetFields == {5, 7, 8, 9, 10}

\* C33: in the response of R22, R23 and R24 the tipset holds two block
\* headers whose Parents, Height, ParentStateRoot, ParentMessageReceipts
\* and Messages fields are identical and whose Miner fields differ, whatever
\* the random source returned.
C33_SharedTipsetFields ==
    resp # NoResp =>
       /\ Len(Blocks) = 2
       /\ \A i \in TipsetFields : Field(Blocks[1], i) = Field(Blocks[2], i)
       /\ Field(Blocks[1], 5).major = 4 /\ Len(Field(Blocks[1], 5).val) = 1
       /\ Field(Blocks[1], 0) # Field(Blocks[2], 0)

\* R22 was built from draws that differ between the two calls of
\* buildBlockHeaderCBOR: the block signatures differ, the tipset fields agree
C33_Witness ==
    /\ resp.id = "R22-nil-ticket-multiblock"
    /\ Field(Blocks[1], 13) # Field(Blocks[2], 13)
    /\ Field(Blocks[1], 1) # cborNil /\ Field(Blocks[2], 1) = cborNil
    /\ Field(Blocks[1], 8) # Field(Blocks[1], 5).val[1]
    /\ Field(Blocks[1], 5) = Field(Blocks[2], 5)

(***************************************************************************)
(* The native counters over the whole run.                                 *)
(***************************************************************************)
\* the senders the step submitted a message for: the sender of the
\* contention in flight, or the senders of the step's mempool pushes
SubmittedFor ==
    IF active \in RaceVectors THEN {race.from}
    ELSE {evs'[i].from : i \in NativePushes(evs')}

\* C34: a native counter never decreases: every step of a stress-engine
\* action leaves each counter as it was or adds exactly one to it, and the
\* counters it changes belong to a sender the action submitted a message
\* for; no step changes the counters of two wallets.
C34_CountersOnlyIncrement ==
    [][/\ DOMAIN nonces' = DOMAIN nonces
       /\ \A w \in DOMAIN nonces :
             /\ nonces'[w] \in {nonces[w], nonces[w] + 1}
             /\ nonces'[w] # nonces[w] => w \in SubmittedFor
       /\ Cardinality({w \in DOMAIN nonces : nonces'[w] # nonces[w]}) <= 1]_vars

\* one wallet's counter has been advanced twice, one at a time, while
\* another wallet's counter still holds its initial value
C34_Witness ==
    \E w, v \in DOMAIN nonces :
       /\ w # v
       /\ nonces[w] = nonces0[w] + 2
       /\ nonces[v] = nonces0[v]
       /\ lastPushed[w].nonce = nonces0[w] + 1
       /\ lastPushed[v].nonce = -1

(***************************************************************************)
(* The fate of each pending deploy in a drain.                             *)
(***************************************************************************)
\* how often the deployment with message CID c is queued, and registered
InQueue(pending, c) == Cardinality({i \in 1 .. Len(pending) : pending[i].msgCid = c})
InRegistry(dc, c) == Cardinality({i \in 1 .. Len(dc) : dc[i].addr = c})

\* the step drained the queue: resolvePendingDeploys looked its entries up
Drained == op' = "DoDeployContracts" /\ Len(receipts') = Len(pendingDeploys)

\* C35: a drain gives every pending deploy exactly one fate: with no receipt
\* (not found, or a lookup error) it stays in the queue, once, and is not
\* registered; with a successful receipt whose return decodes it leaves the
\* queue and is appended to the registry once; with a failed exit code or an
\* undecodable return it leaves the queue and is not registered. At all
\* times no deployment is both queued and registered, none is queued twice
\* and none is registered twice.
C35_OneFatePerDrain ==
    /\ [](\A i \in 1 .. Len(pendingDeploys) :
             /\ InQueue(pendingDeploys, pendingDeploys[i].msgCid) = 1
             /\ InRegistry(deployedContracts, pendingDeploys[i].msgCid) = 0)
    /\ [](\A i \in 1 .. Len(deployedContracts) :
             InRegistry(deployedContracts, deployedContracts[i].addr) = 1)
    /\ [][Drained =>
             \A i \in 1 .. Len(pendingDeploys) :
                LET c == pendingDeploys[i].msgCid
                IN  CASE receipts'[i] = "notfound" ->
                            /\ InQueue(pendingDeploys', c) = 1
                            /\ InRegistry(deployedContracts', c) = 0
                      [] receipts'[i] = "success" ->
                            /\ InQueue(pendingDeploys', c) = 0
                            /\ InRegistry(deployedContracts', c) = 1
                      [] receipts'[i] \in {"failed", "undecodable"} ->
                            /\ InQueue(pendingDeploys', c) = 0
                            /\ InRegistry(deployedContracts', c) = 0]_vars

\* a drain registered the oldest entry and kept the entries whose receipt
\* was not there yet
C35_Witness ==
    /\ op = "DoDeployContracts"
    /\ Len(receipts) > 1
    /\ receipts[1] = "success"
    /\ receipts[2] = "notfound"
    /\ Len(deployedContracts) = 1
    /\ Len(pendingDeploys) >= Len(receipts) - 1

\* a drain removed an entry without registering it
C35_WitnessFailed ==
    /\ op = "DoDeployContracts"
    /\ Len(receipts) > 1
    /\ receipts[1] \in {"failed", "undecodable"}
    /\ deployedContracts = <<>>
    /\ Len(pendingDeploys) \in {Len(receipts) - 1, Len(receipts)}

(***************************************************************************)
(* The gossip pool: budgets and eviction.                                  *)
(***************************************************************************)
\* the pooled hosts that can still be handed out
WithBudget(p) == {h \in Range(p.hosts) : p.budgets[h] > 0}

C37_NeverReturnsClosed == pool.ret.h # 0 => pool.ret.h \notin pool.closed

\* the same for the two methods that create or pick a gossip or fresh host:
\* what GetForGossip and GetFresh return is never a closed host
C37_GossipAndFreshOpen ==
    (op \in {"GetForGossip", "GetFresh"} /\ pool.ret.h # 0) => pool.ret.h \notin pool.closed

(***************************************************************************)
(* sendEthTx failing between its critical section and its submission, in   *)
(* calls made one after the other for one sender.                          *)
(***************************************************************************)
\* call g reserved a nonce and returned false before EthSendRawTransaction
SignFailedIn(g) ==
    /\ sends.call[g].pos = "done"
    /\ sends.call[g].nonce # -1
    /\ ~sends.call[g].signed

\* call h handed its transaction to EthSendRawTransaction
SubmittedIn(h) == sends.call[h].raw # "none"

\* the calls made after call g
After(g) == {h \in Callers : h > g}

\* C38 as stated: when a sendEthTx fails after reserving a nonce and before
\* EthSendRawTransaction, no later call for that sender submits that nonce.
C38_ReservedNeverSubmitted ==
    \A g \in Callers : \A h \in After(g) :
       (SignFailedIn(g) /\ SubmittedIn(h)) => sends.call[h].nonce # sends.call[g].nonce

\* C38 amended: a sendEthTx that fails after reserving nonce n and before
\* EthSendRawTransaction submits nothing and leaves the sender's cache entry
\* one past n; the next call takes n + 1; as long as no later call's
\* EthSendRawTransaction has failed the entry stays above n, and a later
\* call submits n only after such a failure has removed the entry.
C38_GapUntilResync ==
    \A g \in Callers :
       SignFailedIn(g) =>
          /\ sends.call[g].raw = "none"
          /\ (\A h \in After(g) : sends.call[h].pos = "idle") =>
                /\ ClientKey \in DOMAIN ethNonces
                /\ ethNonces[ClientKey] = sends.call[g].nonce + 1
          /\ (g + 1 \in Callers /\ sends.call[g + 1].nonce # -1) =>
                sends.call[g + 1].nonce = sends.call[g].nonce + 1
          /\ (\A h \in After(g) : sends.call[h].raw # "failed") =>
                /\ ClientKey \in DOMAIN ethNonces
                /\ ethNonces[ClientKey] > sends.call[g].nonce
          /\ \A h \in After(g) :
                (SubmittedIn(h) /\ sends.call[h].nonce = sends.call[g].nonce) =>
                   \E j \in After(g) : j < h /\ sends.call[j].raw = "failed"

\* a call failed to sign, and the call after it has taken the following
\* nonce and submitted it
C38_Witness ==
    \E g \in Callers :
       /\ SignFailedIn(g)
       /\ g + 1 \in Callers
       /\ SubmittedIn(g + 1)
       /\ sends.call[g + 1].nonce = sends.call[g].nonce + 1

\* the reserved nonce comes back: a later call's submission failed, and the
\* call after that one submitted the nonce the failed call had reserved
C38_WitnessResync ==
    \E g \in Callers : \E h \in After(g) :
       /\ SignFailedIn(g)
       /\ SubmittedIn(h)
       /\ sends.call[h].nonce = sends.call[g].nonce

=========================================================================
